---- MODULE Spec2Model ----
(***************************************************************************)
(* Boiler dosing controller: the blowdown valve state machine              *)
(* (blowdown.cpp) and the chemical pump engine (chemical_pump.cpp).        *)
(*                                                                         *)
(* Every C++ method is an operator from controller record to controller    *)
(* record, composed in the order the code calls them; every public entry   *)
(* point is one action.  millis() is the variable now, advanced by Tick.   *)
(***************************************************************************)
EXTENDS Integers, Sequences, FiniteSets, TLC

VARIABLES
    now,          \* millis()
    config,       \* blowdown_config_t the controller points at (_config)
    cond_config,  \* conductivity_config_t (_cond_config)
    bd,           \* BlowdownController: _status, private timers, processHOA's static
    bdOp,         \* the last call on the blowdown controller: name, flow_ok
    pump_config,  \* pump_config_t per pump
    pumps,        \* ChemicalPump per pump: _status and private fields
    pump_hand_start_time, \* the static local of ChemicalPump::processHOA
    enable_pin,   \* level driven on STEPPER_ENABLE_PIN (TRUE = driver enabled, pin LOW)
    emergency_stop, \* PumpManager::_emergency_stop
    meter,        \* WaterMeterManager, the interrupt handler's counters, the measurement task
    task,         \* the control task: its position in taskControlLoop and its locals
    fuzzy         \* FuzzyController: configuration, sets, rules, manual inputs, last result

vars == <<now, config, cond_config, bd, bdOp,
          pump_config, pumps, pump_hand_start_time, enable_pin, emergency_stop,
          meter, task, fuzzy>>

bdVars == <<config, cond_config, bd, bdOp>>
pumpVars == <<pump_config, pumps, pump_hand_start_time, enable_pin, emergency_stop>>
taskVars == <<meter, task, fuzzy>>

-----------------------------------------------------------------------------
(* Bounds of the model *)

\* milliseconds between two values of millis() the model distinguishes
TICK_MS == 300000
\* number of clock advances in a behaviour
MaxTicks == 4

\* contacts or volume units a pump may have pending when an iteration starts
MaxPending == 4

MaxTime == MaxTicks * TICK_MS

-----------------------------------------------------------------------------
(* Program constants *)

HOA_HAND_TIMEOUT_SEC == 600
BLOW_DEFAULT_SETPOINT == 2500
BLOW_DEFAULT_DEADBAND == 50
COND_DEFAULT_PROP_BAND == 200
PUMP_COUNT == 3
PUMP_DEFAULT_STEPS_PER_ML == 200
WATER_METER_DEBOUNCE_MS == 50
WATER_METER_PULSES_PER_GAL == 1
FUZZY_MAX_INPUTS == 6
FUZZY_MAX_OUTPUTS == 4
FUZZY_MAX_SETS == 7
FUZZY_RESOLUTION == 101
FUZZY_IN_TDS == 0
FUZZY_IN_ALKALINITY == 1
FUZZY_IN_SULFITE == 2
FUZZY_IN_PH == 3
FUZZY_IN_TEMPERATURE == 4
FUZZY_IN_TREND == 5
FUZZY_OUT_BLOWDOWN == 0
FUZZY_OUT_CAUSTIC == 1
FUZZY_OUT_SULFITE == 2
FUZZY_OUT_ACID == 3
TERM_VERY_LOW == 0
TERM_LOW == 1
TERM_MEDIUM_LOW == 2
TERM_MEDIUM == 3
TERM_MEDIUM_HIGH == 4
TERM_HIGH == 5
TERM_VERY_HIGH == 6
DONT_CARE == 255
\* the membership degree 1.0f, in thousandths
ONE == 1000

HOA_AUTO == "AUTO"
HOA_OFF == "OFF"
HOA_HAND == "HAND"
hoa_mode_t == {HOA_AUTO, HOA_OFF, HOA_HAND}

BD_STATE_IDLE == "IDLE"
BD_STATE_VALVE_OPENING == "VALVE_OPENING"
BD_STATE_BLOWING_DOWN == "BLOWING_DOWN"
BD_STATE_VALVE_CLOSING == "VALVE_CLOSING"
BD_STATE_SAMPLING == "SAMPLING"
BD_STATE_HOLDING == "HOLDING"
BD_STATE_WAITING == "WAITING"
BD_STATE_TIMEOUT == "TIMEOUT"
BD_STATE_ERROR == "ERROR"

SAMPLE_MODE_CONTINUOUS == "CONTINUOUS"
SAMPLE_MODE_INTERMITTENT == "INTERMITTENT"
SAMPLE_MODE_TIMED_BLOWDOWN == "TIMED_BLOWDOWN"
SAMPLE_MODE_TIME_PROPORTIONAL == "TIME_PROPORTIONAL"
sample_mode_t == {SAMPLE_MODE_CONTINUOUS, SAMPLE_MODE_INTERMITTENT,
                  SAMPLE_MODE_TIMED_BLOWDOWN, SAMPLE_MODE_TIME_PROPORTIONAL}

-----------------------------------------------------------------------------
(* Inputs and configurations the model ranges over *)

\* conductivity readings: below setpoint - deadband, on that edge, inside the
\* deadband, on the setpoint, above the setpoint (and above setpoint + deadband)
Conductivities ==
    {BLOW_DEFAULT_SETPOINT - 2 * BLOW_DEFAULT_DEADBAND,
     BLOW_DEFAULT_SETPOINT - BLOW_DEFAULT_DEADBAND,
     BLOW_DEFAULT_SETPOINT - BLOW_DEFAULT_DEADBAND \div 2,
     BLOW_DEFAULT_SETPOINT,
     BLOW_DEFAULT_SETPOINT + 2 * BLOW_DEFAULT_DEADBAND}

\* time_limit_seconds: 0 = unlimited, or one clock step (300 s)
TimeLimits == {0, TICK_MS \div 1000}
\* ball_valve_delay: 0 = solenoid, or the longest motorized valve a uint8_t
\* number of seconds can describe (elapsed after one clock step)
ValveDelays == {0, 255}

\* _config == nullptr
NoBlowdownConfig ==
    [present |-> FALSE, setpoint |-> 0, deadband |-> 0, time_limit_seconds |-> 0,
     control_direction |-> 0, ball_valve_delay |-> 0]

BlowdownConfigs ==
    {NoBlowdownConfig} \cup
    [present : {TRUE}, setpoint : {BLOW_DEFAULT_SETPOINT},
     deadband : {BLOW_DEFAULT_DEADBAND}, time_limit_seconds : TimeLimits,
     control_direction : {0, 1}, ball_valve_delay : ValveDelays]

\* _cond_config == nullptr
NoCondConfig ==
    [present |-> FALSE, sample_mode |-> SAMPLE_MODE_CONTINUOUS,
     interval_seconds |-> 0, duration_seconds |-> 0, hold_time_seconds |-> 0,
     blow_time_seconds |-> 0, prop_band |-> 0, max_prop_time_seconds |-> 0]

CondConfigsOf(modes) ==
    [present : {TRUE}, sample_mode : modes,
     interval_seconds : {(2 * TICK_MS) \div 1000},
     duration_seconds : {TICK_MS \div 1000},
     hold_time_seconds : {TICK_MS \div 1000},
     blow_time_seconds : {TICK_MS \div 1000},
     prop_band : {COND_DEFAULT_PROP_BAND},
     max_prop_time_seconds : {(2 * TICK_MS) \div 1000}]

-----------------------------------------------------------------------------
(* BlowdownController *)

\* The controller after its constructor and configure(): blowdown.cpp:16-52.
\* state_start_time, last_conductivity and trapped_sample_conductivity are
\* written and never read by the controller; they are left out of the record.
BlowdownController(c) ==
    [state |-> BD_STATE_IDLE,
     valve_open |-> FALSE,
     relay_energized |-> FALSE,
     hoa_mode |-> HOA_AUTO,
     blowdown_start_time |-> 0,
     current_blowdown_time |-> 0,
     total_blowdown_time |-> 0,
     accumulated_blowdown_time |-> 0,
     timeout_flag |-> FALSE,
     waiting_for_reset |-> FALSE,
     valve_action_start |-> 0,
     valve_target_state |-> FALSE,
     interval_timer |-> 0,
     duration_timer |-> 0,
     hold_timer |-> 0,
     prop_blowdown_time |-> 0,
     hand_start_time |-> 0,
     config_hoa_mode |-> HOA_AUTO,
     config_timeout_flag |-> FALSE]

transitionState(s, new_state) == [s EXCEPT !.state = new_state]

setRelayState(s, energize) == [s EXCEPT !.relay_energized = energize]

startBallValve(s, opening, t) ==
    transitionState(
        setRelayState([s EXCEPT !.valve_target_state = opening,
                                !.valve_action_start = t], opening),
        IF opening THEN BD_STATE_VALVE_OPENING ELSE BD_STATE_VALVE_CLOSING)

openValve(s, c, t) ==
    IF c.present /\ c.ball_valve_delay > 0
    THEN startBallValve(s, TRUE, t)
    ELSE transitionState(
            [setRelayState(s, TRUE) EXCEPT !.valve_open = TRUE,
                                           !.blowdown_start_time = t],
            BD_STATE_BLOWING_DOWN)

closeValve(s, c, t) ==
    IF c.present /\ c.ball_valve_delay > 0
    THEN startBallValve(s, FALSE, t)
    ELSE LET s1 == [setRelayState(s, FALSE) EXCEPT !.valve_open = FALSE]
             s2 == IF s1.state = BD_STATE_BLOWING_DOWN
                   THEN [s1 EXCEPT
                           !.accumulated_blowdown_time =
                               @ + s1.current_blowdown_time,
                           !.total_blowdown_time =
                               @ + (s1.current_blowdown_time \div 1000)]
                   ELSE s1
         IN  transitionState(s2, BD_STATE_IDLE)

\* Variant of resetTimeout that clears the flag and leaves waiting_for_reset
\* set; the latch property C4 tells the two apart.
resetTimeout_keepsWaiting(s, c) ==
    transitionState(
        [s EXCEPT !.timeout_flag = FALSE,
                  !.config_timeout_flag = IF c.present THEN FALSE ELSE @],
        BD_STATE_IDLE)

resetTimeout(s, c) ==
    transitionState(
        [s EXCEPT !.timeout_flag = FALSE,
                  !.waiting_for_reset = FALSE,
                  !.config_timeout_flag = IF c.present THEN FALSE ELSE @],
        BD_STATE_IDLE)

setHOA(s, c, mode) ==
    [s EXCEPT !.hoa_mode = mode,
              !.config_hoa_mode = IF c.present THEN mode ELSE @]

isActive(s) ==
    \/ s.valve_open
    \/ s.state = BD_STATE_BLOWING_DOWN
    \/ s.state = BD_STATE_VALVE_OPENING

processHOA(s, c, t) ==
    CASE s.hoa_mode = HOA_HAND ->
            IF ~s.valve_open
            THEN openValve([s EXCEPT !.hand_start_time = t], c, t)
            ELSE IF t - s.hand_start_time >= HOA_HAND_TIMEOUT_SEC * 1000
                 THEN [closeValve(s, c, t) EXCEPT !.hoa_mode = HOA_AUTO]
                 ELSE s
      [] s.hoa_mode = HOA_OFF ->
            IF s.valve_open THEN closeValve(s, c, t) ELSE s
      [] OTHER -> s

\* Variant of processContinuousMode without the test for a missing
\* configuration, reading the fields of the absent configuration as 0; the
\* missing-configuration property C30 tells the two apart.
processContinuousMode_noConfigCheck(s, c, conductivity, t) ==
    IF s.waiting_for_reset THEN s
    ELSE IF c.control_direction = 0
         THEN IF conductivity > c.setpoint /\ ~s.valve_open
              THEN openValve(s, c, t)
              ELSE IF conductivity < (c.setpoint - c.deadband) /\ s.valve_open
                   THEN closeValve(s, c, t)
                   ELSE s
         ELSE IF conductivity < c.setpoint /\ ~s.valve_open
              THEN openValve(s, c, t)
              ELSE IF conductivity > (c.setpoint + c.deadband) /\ s.valve_open
                   THEN closeValve(s, c, t)
                   ELSE s

\* Variant of processContinuousMode without the waiting_for_reset guard; the
\* suspension property C3 tells the two apart.
processContinuousMode_noGuard(s, c, conductivity, t) ==
    IF ~c.present THEN s
    ELSE IF c.control_direction = 0
         THEN IF conductivity > c.setpoint /\ ~s.valve_open
              THEN openValve(s, c, t)
              ELSE IF conductivity < (c.setpoint - c.deadband) /\ s.valve_open
                   THEN closeValve(s, c, t)
                   ELSE s
         ELSE IF conductivity < c.setpoint /\ ~s.valve_open
              THEN openValve(s, c, t)
              ELSE IF conductivity > (c.setpoint + c.deadband) /\ s.valve_open
                   THEN closeValve(s, c, t)
                   ELSE s

\* Variant of processContinuousMode that closes as soon as the reading is back
\* at the setpoint, without the deadband; the hysteresis property C7 tells
\* the two apart.
processContinuousMode_noDeadband(s, c, conductivity, t) ==
    IF ~c.present \/ s.waiting_for_reset THEN s
    ELSE IF c.control_direction = 0
         THEN IF conductivity > c.setpoint /\ ~s.valve_open
              THEN openValve(s, c, t)
              ELSE IF conductivity <= c.setpoint /\ s.valve_open
                   THEN closeValve(s, c, t)
                   ELSE s
         ELSE IF conductivity < c.setpoint /\ ~s.valve_open
              THEN openValve(s, c, t)
              ELSE IF conductivity >= c.setpoint /\ s.valve_open
                   THEN closeValve(s, c, t)
                   ELSE s

processContinuousMode(s, c, conductivity, t) ==
    IF ~c.present \/ s.waiting_for_reset THEN s
    ELSE IF c.control_direction = 0
         THEN IF conductivity > c.setpoint /\ ~s.valve_open
              THEN openValve(s, c, t)
              ELSE IF conductivity < (c.setpoint - c.deadband) /\ s.valve_open
                   THEN closeValve(s, c, t)
                   ELSE s
         ELSE IF conductivity < c.setpoint /\ ~s.valve_open
              THEN openValve(s, c, t)
              ELSE IF conductivity > (c.setpoint + c.deadband) /\ s.valve_open
                   THEN closeValve(s, c, t)
                   ELSE s

\* variant of the Idle/Waiting branch without the interval test
startSampleCycle_noInterval(s, c, cc, t) ==
    openValve(
        transitionState([s EXCEPT !.interval_timer = t,
                                  !.duration_timer = t],
                        BD_STATE_SAMPLING),
        c, t)

\* Idle/Waiting branch shared verbatim by the three interval modes
\* (blowdown.cpp:252-261, 318-326, 370-378)
startSampleCycle(s, c, cc, t) ==
    IF t - s.interval_timer >= cc.interval_seconds * 1000
    THEN openValve(
            transitionState([s EXCEPT !.interval_timer = t,
                                      !.duration_timer = t],
                            BD_STATE_SAMPLING),
            c, t)
    ELSE s

\* closeValve(); _hold_timer = now; (sample recorded); -> HOLDING
trapSample(s, c, conductivity, t) ==
    transitionState([closeValve(s, c, t) EXCEPT !.hold_timer = t],
                    BD_STATE_HOLDING)

processIntermittentMode(s, c, cc, conductivity, t) ==
    IF ~c.present \/ ~cc.present \/ s.waiting_for_reset THEN s
    ELSE CASE s.state \in {BD_STATE_IDLE, BD_STATE_WAITING} ->
                startSampleCycle(s, c, cc, t)
           [] s.state = BD_STATE_SAMPLING ->
                IF t - s.duration_timer >= cc.duration_seconds * 1000
                THEN IF conductivity > c.setpoint
                     THEN transitionState(s, BD_STATE_BLOWING_DOWN)
                     ELSE trapSample(s, c, conductivity, t)
                ELSE s
           [] s.state = BD_STATE_BLOWING_DOWN ->
                IF conductivity < c.setpoint
                THEN trapSample(s, c, conductivity, t)
                ELSE s
           [] s.state = BD_STATE_HOLDING ->
                IF t - s.hold_timer >= cc.hold_time_seconds * 1000
                THEN IF conductivity > c.setpoint
                     THEN openValve(
                            transitionState([s EXCEPT !.duration_timer = t],
                                            BD_STATE_SAMPLING),
                            c, t)
                     ELSE transitionState(s, BD_STATE_WAITING)
                ELSE s
           [] OTHER -> s

\* variant without the cap of the percentage at 1.0
calculateProportionalTime_uncapped(c, cc, conductivity) ==
    IF ~c.present \/ ~cc.present THEN 0
    ELSE LET deviation == conductivity - c.setpoint
             max_time_ms == cc.max_prop_time_seconds * 1000
         IN  IF deviation <= 0 THEN 0
             ELSE IF cc.prop_band = 0 THEN max_time_ms
                  ELSE (deviation * max_time_ms) \div cc.prop_band

\* (uint32_t)(percentage * max_time_ms) with percentage = min(1, deviation / prop_band)
\* The quotient and the product are computed exactly here and in float in
\* the code, for whole-number conductivities; both truncate to a millisecond.
\* A deviation / 0 is +infinity in the code and is capped at 1.0.
calculateProportionalTime(c, cc, conductivity) ==
    IF ~c.present \/ ~cc.present THEN 0
    ELSE LET deviation == conductivity - c.setpoint
             max_time_ms == cc.max_prop_time_seconds * 1000
         IN  IF deviation <= 0 THEN 0
             ELSE IF deviation >= cc.prop_band THEN max_time_ms
                  ELSE (deviation * max_time_ms) \div cc.prop_band

\* processTimedBlowdown and processTimeProportional differ only in the
\* discharge time they set when the hold period ends above the setpoint
processTimedCycle(s, c, cc, conductivity, t, blow_ms) ==
    IF ~c.present \/ ~cc.present \/ s.waiting_for_reset THEN s
    ELSE CASE s.state \in {BD_STATE_IDLE, BD_STATE_WAITING} ->
                startSampleCycle(s, c, cc, t)
           [] s.state = BD_STATE_SAMPLING ->
                IF t - s.duration_timer >= cc.duration_seconds * 1000
                THEN trapSample(s, c, conductivity, t)
                ELSE s
           [] s.state = BD_STATE_HOLDING ->
                IF t - s.hold_timer >= cc.hold_time_seconds * 1000
                THEN IF conductivity > c.setpoint
                     THEN openValve(
                            transitionState([s EXCEPT !.prop_blowdown_time = blow_ms],
                                            BD_STATE_BLOWING_DOWN),
                            c, t)
                     ELSE transitionState(s, BD_STATE_WAITING)
                ELSE s
           [] s.state = BD_STATE_BLOWING_DOWN ->
                IF t - s.blowdown_start_time >= s.prop_blowdown_time
                THEN transitionState([closeValve(s, c, t) EXCEPT !.hold_timer = t],
                                     BD_STATE_HOLDING)
                ELSE s
           [] OTHER -> s

processTimedBlowdown(s, c, cc, conductivity, t) ==
    processTimedCycle(s, c, cc, conductivity, t, cc.blow_time_seconds * 1000)

processTimeProportional(s, c, cc, conductivity, t) ==
    processTimedCycle(s, c, cc, conductivity, t,
                      calculateProportionalTime(c, cc, conductivity))

checkBallValveComplete(s, c, t) ==
    IF ~c.present THEN s
    ELSE IF t - s.valve_action_start >= c.ball_valve_delay * 1000
         THEN IF s.valve_target_state
              THEN transitionState([s EXCEPT !.valve_open = TRUE,
                                             !.blowdown_start_time = t],
                                   BD_STATE_BLOWING_DOWN)
              ELSE transitionState([s EXCEPT !.valve_open = FALSE], BD_STATE_IDLE)
         ELSE s

\* Variant of checkTimeout that fires only once the limit is exceeded, not
\* when it is reached; the trigger property C2 tells the two apart.
checkTimeout_exceeded(s, c, t) ==
    IF ~c.present \/ c.time_limit_seconds = 0 THEN s
    ELSE IF s.state = BD_STATE_BLOWING_DOWN
            /\ s.current_blowdown_time > c.time_limit_seconds * 1000
         THEN transitionState(
                [closeValve(s, c, t) EXCEPT !.timeout_flag = TRUE,
                                            !.waiting_for_reset = TRUE,
                                            !.config_timeout_flag = TRUE],
                BD_STATE_TIMEOUT)
         ELSE s

checkTimeout(s, c, t) ==
    IF ~c.present \/ c.time_limit_seconds = 0 THEN s
    ELSE IF s.state = BD_STATE_BLOWING_DOWN
            /\ s.current_blowdown_time >= c.time_limit_seconds * 1000
         THEN transitionState(
                [closeValve(s, c, t) EXCEPT !.timeout_flag = TRUE,
                                            !.waiting_for_reset = TRUE,
                                            !.config_timeout_flag = TRUE],
                BD_STATE_TIMEOUT)
         ELSE s

\* the sampling-mode switch of update(): blowdown.cpp:84-102
processSampleMode(s, c, cc, conductivity, t) ==
    IF ~cc.present THEN processContinuousMode(s, c, conductivity, t)
    ELSE CASE cc.sample_mode = SAMPLE_MODE_CONTINUOUS ->
                processContinuousMode(s, c, conductivity, t)
           [] cc.sample_mode = SAMPLE_MODE_INTERMITTENT ->
                processIntermittentMode(s, c, cc, conductivity, t)
           [] cc.sample_mode = SAMPLE_MODE_TIMED_BLOWDOWN ->
                processTimedBlowdown(s, c, cc, conductivity, t)
           [] cc.sample_mode = SAMPLE_MODE_TIME_PROPORTIONAL ->
                processTimeProportional(s, c, cc, conductivity, t)

update(s, c, cc, conductivity, flow_ok, t) ==
    IF ~flow_ok
    THEN IF s.valve_open THEN closeValve(s, c, t) ELSE s
    ELSE LET s1 == processHOA(s, c, t)
         IN  IF s1.hoa_mode # HOA_AUTO THEN s1
             ELSE IF s1.state \in {BD_STATE_VALVE_OPENING, BD_STATE_VALVE_CLOSING}
                  THEN checkBallValveComplete(s1, c, t)
                  ELSE LET s2 == processSampleMode(s1, c, cc, conductivity, t)
                           s3 == checkTimeout(s2, c, t)
                       IN  IF s3.state = BD_STATE_BLOWING_DOWN
                           THEN [s3 EXCEPT !.current_blowdown_time =
                                               t - s3.blowdown_start_time]
                           ELSE s3

-----------------------------------------------------------------------------
(* ChemicalPump and PumpManager *)

PUMP_STATE_IDLE == "PUMP_IDLE"
PUMP_STATE_RUNNING == "PUMP_RUNNING"
PUMP_STATE_PRIMING == "PUMP_PRIMING"
PUMP_STATE_CALIBRATING == "PUMP_CALIBRATING"
PUMP_STATE_LOCKED_OUT == "PUMP_LOCKED_OUT"
PUMP_STATE_ERROR == "PUMP_ERROR"

FEED_MODE_DISABLED == "DISABLED"
FEED_MODE_A_BLOWDOWN_FEED == "A_BLOWDOWN_FEED"
FEED_MODE_B_PERCENT_BLOWDOWN == "B_PERCENT_BLOWDOWN"
FEED_MODE_C_PERCENT_TIME == "C_PERCENT_TIME"
FEED_MODE_D_WATER_CONTACT == "D_WATER_CONTACT"
FEED_MODE_E_PADDLEWHEEL == "E_PADDLEWHEEL"

\* pump_id_t: PUMP_H2SO3 = 0, PUMP_NAOH = 1, PUMP_AMINE = 2
PumpIds == 0 .. (PUMP_COUNT - 1)

\* _stepper.move(1000000000): "run indefinitely" (chemical_pump.cpp:142)
RunForever == 1000000000

\* time_limit_seconds of a pump: 0 = no limit, or one clock step
PumpTimeLimits == {0, TICK_MS \div 1000}
\* lockout_seconds (Mode A feed cap): 0 = none, or one clock step
LockoutSeconds == {0, TICK_MS \div 1000}

PumpConfigs ==
    {c \in [present : {TRUE}, enabled : {TRUE},
            feed_mode : {FEED_MODE_DISABLED, FEED_MODE_A_BLOWDOWN_FEED},
            lockout_seconds : LockoutSeconds,
            percent_of_blowdown : {0}, max_time_seconds : {0},
            time_limit_seconds : PumpTimeLimits,
            steps_per_ml : {PUMP_DEFAULT_STEPS_PER_ML}] :
        c.feed_mode = FEED_MODE_DISABLED => c.lockout_seconds = 0}

\* percent_of_blowdown (Mode B): the smallest, a middle and the largest share
Percents == {1, 50, 99}
\* max_time_seconds (Mode B feed cap): 0 = none, or half a clock step
MaxTimeSeconds == {0, TICK_MS \div 2000}

\* Mode A and Mode B configurations without a feed time limit
FeedConfigs ==
    {c \in [present : {TRUE}, enabled : {TRUE},
            feed_mode : {FEED_MODE_A_BLOWDOWN_FEED, FEED_MODE_B_PERCENT_BLOWDOWN},
            lockout_seconds : LockoutSeconds,
            percent_of_blowdown : {0} \cup Percents,
            max_time_seconds : MaxTimeSeconds,
            time_limit_seconds : {0},
            steps_per_ml : {PUMP_DEFAULT_STEPS_PER_ML}] :
        IF c.feed_mode = FEED_MODE_A_BLOWDOWN_FEED
        THEN c.percent_of_blowdown = 0 /\ c.max_time_seconds = 0
        ELSE c.lockout_seconds = 0 /\ c.percent_of_blowdown > 0}

\* A pump after its constructor and configure(): chemical_pump.cpp:18-81.
\* togo is _stepper.distanceToGo().  _target_steps and the enabled / hoa_mode
\* copies kept in the configuration are written and never read by the pump;
\* they are left out of the record.
ChemicalPump(c) ==
    [state |-> PUMP_STATE_IDLE,
     enabled |-> IF c.present THEN c.enabled ELSE FALSE,
     running |-> FALSE,
     hoa_mode |-> HOA_AUTO,
     start_time |-> 0,
     runtime_ms |-> 0,
     lockout_end_time |-> 0,
     target_time_ms |-> 0,
     time_limited |-> FALSE,
     steps_limited |-> FALSE,
     togo |-> 0,
     mode_a_was_blowing |-> FALSE,
     mode_b_accumulated_blowdown |-> 0,
     mode_c_cycle_start |-> 0,
     accumulated_feed_time |-> 0,
     contact_count |-> 0,
     accumulated_volume |-> 0]

\* The pump operators act on w = [pumps, hand, pin]: the three pump objects,
\* the static hand_start_time of ChemicalPump::processHOA (one variable for
\* every instance of the class) and the level of STEPPER_ENABLE_PIN, the
\* enable pin all three constructors are given (chemical_pump.cpp:509-514).

\* digitalWrite(_enable_pin, enable ? LOW : HIGH), active LOW
enableDriver(w, i, enable) == [w EXCEPT !.pin = enable]

ChemicalPump_stop(w, i) ==
    LET w1 == enableDriver(w, i, FALSE)
    IN  [w1 EXCEPT !.pumps[i].togo = 0,
                   !.pumps[i].running = FALSE,
                   !.pumps[i].state =
                       IF @ = PUMP_STATE_RUNNING THEN PUMP_STATE_IDLE ELSE @]

\* Variant of ChemicalPump_start without the enabled check; the forced-stop
\* property C11 tells the two apart.
ChemicalPump_start_noEnabledCheck(w, i, c, duration_ms, volume_ml, t) ==
    LET p == w.pumps[i]
    IN  IF p.state = PUMP_STATE_LOCKED_OUT /\ t < p.lockout_end_time THEN w
        ELSE LET limited == volume_ml > 0 /\ c.present /\ c.steps_per_ml > 0
                 w1 == enableDriver(w, i, TRUE)
             IN  [w1 EXCEPT
                    !.pumps[i].state = PUMP_STATE_RUNNING,
                    !.pumps[i].running = TRUE,
                    !.pumps[i].start_time = t,
                    !.pumps[i].runtime_ms = 0,
                    !.pumps[i].steps_limited = limited,
                    !.pumps[i].togo =
                        IF limited THEN volume_ml * c.steps_per_ml ELSE RunForever,
                    !.pumps[i].target_time_ms =
                        IF duration_ms > 0 THEN duration_ms ELSE @,
                    !.pumps[i].time_limited = (duration_ms > 0)]

ChemicalPump_start(w, i, c, duration_ms, volume_ml, t) ==
    LET p == w.pumps[i]
    IN  IF ~p.enabled THEN w
        ELSE IF p.state = PUMP_STATE_LOCKED_OUT /\ t < p.lockout_end_time THEN w
        ELSE LET limited == volume_ml > 0 /\ c.present /\ c.steps_per_ml > 0
                 w1 == enableDriver(w, i, TRUE)
             IN  [w1 EXCEPT
                    !.pumps[i].state = PUMP_STATE_RUNNING,
                    !.pumps[i].running = TRUE,
                    !.pumps[i].start_time = t,
                    !.pumps[i].runtime_ms = 0,
                    !.pumps[i].steps_limited = limited,
                    !.pumps[i].togo =
                        IF limited THEN volume_ml * c.steps_per_ml ELSE RunForever,
                    !.pumps[i].target_time_ms =
                        IF duration_ms > 0 THEN duration_ms ELSE @,
                    !.pumps[i].time_limited = (duration_ms > 0)]

ChemicalPump_setEnabled(w, i, c, enable) ==
    LET w1 == [w EXCEPT !.pumps[i].enabled = enable]
    IN  IF ~enable /\ w1.pumps[i].running THEN ChemicalPump_stop(w1, i) ELSE w1

ChemicalPump_setHOA(w, i, c, mode) ==
    [w EXCEPT !.pumps[i].hoa_mode = mode]

ChemicalPump_prime(w, i, c, duration_ms, t) ==
    IF ~w.pumps[i].enabled THEN w
    ELSE ChemicalPump_start([w EXCEPT !.pumps[i].state = PUMP_STATE_PRIMING],
                            i, c, duration_ms, 0, t)

ChemicalPump_startCalibration(w, i, steps, t) ==
    IF ~w.pumps[i].enabled THEN w
    ELSE LET w1 == enableDriver(
                     [w EXCEPT !.pumps[i].state = PUMP_STATE_CALIBRATING], i, TRUE)
         IN  [w1 EXCEPT !.pumps[i].togo = steps,
                        !.pumps[i].running = TRUE,
                        !.pumps[i].start_time = t,
                        !.pumps[i].steps_limited = TRUE,
                        !.pumps[i].time_limited = FALSE]

ChemicalPump_processHOA(w, i, c, t) ==
    LET p == w.pumps[i]
    IN  CASE p.hoa_mode = HOA_HAND ->
                IF ~p.running
                THEN ChemicalPump_start([w EXCEPT !.hand = t], i, c,
                                        HOA_HAND_TIMEOUT_SEC * 1000, 0, t)
                ELSE IF t - w.hand >= HOA_HAND_TIMEOUT_SEC * 1000
                     THEN [ChemicalPump_stop(w, i) EXCEPT
                             !.pumps[i].hoa_mode = HOA_AUTO]
                     ELSE w
          [] p.hoa_mode = HOA_OFF ->
                IF p.running THEN ChemicalPump_stop(w, i) ELSE w
          [] OTHER -> w

\* Variant of ChemicalPump_checkTimeout that stops the pump without the
\* transition to PUMP_STATE_LOCKED_OUT; the trigger property C5 tells the two
\* apart.
ChemicalPump_checkTimeout_noLockout(w, i, c) ==
    LET p == w.pumps[i]
    IN  IF ~c.present \/ ~p.running THEN w
        ELSE IF c.time_limit_seconds > 0
                /\ p.runtime_ms >= c.time_limit_seconds * 1000
             THEN ChemicalPump_stop(w, i)
             ELSE w

ChemicalPump_checkTimeout(w, i, c) ==
    LET p == w.pumps[i]
    IN  IF ~c.present \/ ~p.running THEN w
        ELSE IF c.time_limit_seconds > 0
                /\ p.runtime_ms >= c.time_limit_seconds * 1000
             THEN [ChemicalPump_stop(w, i) EXCEPT
                     !.pumps[i].state = PUMP_STATE_LOCKED_OUT]
             ELSE w

\* runtime_ms = now - start_time; _stepper.setCurrentPosition(0) also makes
\* the target the current position, so distanceToGo() becomes 0
updateStats(w, i, t) ==
    IF w.pumps[i].running
    THEN [w EXCEPT !.pumps[i].runtime_ms = t - w.pumps[i].start_time,
                   !.pumps[i].togo = 0]
    ELSE w

\* stepped: whether _stepper.run() found a step due and made it
ChemicalPump_update(w, i, c, t, stepped) ==
    LET w1 == ChemicalPump_processHOA(w, i, c, t)
        w2 == ChemicalPump_checkTimeout(w1, i, c)
    IN  IF ~w2.pumps[i].running THEN w2
        ELSE LET w3 == IF stepped /\ w2.pumps[i].togo > 0
                       THEN [w2 EXCEPT !.pumps[i].togo = @ - 1]
                       ELSE w2
                 w4 == IF w3.pumps[i].steps_limited /\ w3.pumps[i].togo = 0
                       THEN ChemicalPump_stop(w3, i)
                       ELSE w3
                 w5 == IF w4.pumps[i].time_limited
                          /\ t - w4.pumps[i].start_time >= w4.pumps[i].target_time_ms
                       THEN ChemicalPump_stop(w4, i)
                       ELSE w4
             IN  updateStats(w5, i, t)

\* what one update() adds to total_runtime_ms: updateStats() adds the whole
\* time since the start of the run, and only when the pump is still running
\* at the end of update().  total_runtime_ms itself is never read by the
\* pump and is left out of the record.
totalRuntimeAdded(w, i, c, t, stepped) ==
    LET p == ChemicalPump_update(w, i, c, t, stepped).pumps[i]
    IN  IF p.running THEN t - p.start_time ELSE 0

processModeA(w, i, c, blowdown_active, t) ==
    IF blowdown_active
    THEN LET w1 == IF ~w.pumps[i].running
                   THEN ChemicalPump_start(w, i, c, c.lockout_seconds * 1000, 0, t)
                   ELSE w
         IN  [w1 EXCEPT !.pumps[i].mode_a_was_blowing = TRUE]
    ELSE LET w1 == IF w.pumps[i].mode_a_was_blowing /\ w.pumps[i].running
                   THEN ChemicalPump_stop(w, i)
                   ELSE w
         IN  [w1 EXCEPT !.pumps[i].mode_a_was_blowing = FALSE]

\* variant with the product taken in unbounded arithmetic
Mul32Div100_exact(a, percent) ==
    (a \div 100) * percent + ((a % 100) * percent) \div 100

\* (a * percent) / 100 in uint32_t arithmetic: the product is reduced modulo
\* 2^32 before the division.  Computed on 16-bit halves, for a < 2^31.
Mul32Div100(a, percent) ==
    LET lo == (a % 65536) * percent
        hi == ((a \div 65536) * percent + (lo \div 65536)) % 65536
    IN  (hi \div 100) * 65536 + (((hi % 100) * 65536 + (lo % 65536)) \div 100)

\* feed_time of Mode B: the share of the latched blowdown time, capped
ModeBFeedTime(c, a) ==
    LET feed_time == Mul32Div100(a, c.percent_of_blowdown)
        max_ms == c.max_time_seconds * 1000
    IN  IF c.max_time_seconds > 0 /\ feed_time > max_ms THEN max_ms ELSE feed_time

processModeB(w, i, c, blowdown_active, blowdown_time_ms, t) ==
    IF blowdown_active
    THEN LET w1 == [w EXCEPT !.pumps[i].mode_b_accumulated_blowdown = blowdown_time_ms]
         IN  IF w1.pumps[i].running THEN ChemicalPump_stop(w1, i) ELSE w1
    ELSE IF w.pumps[i].mode_b_accumulated_blowdown > 0 /\ ~w.pumps[i].running
         THEN LET feed_time == ModeBFeedTime(c, w.pumps[i].mode_b_accumulated_blowdown)
                  w1 == IF feed_time > 0
                        THEN ChemicalPump_start(w, i, c, feed_time, 0, t)
                        ELSE w
              IN  [w1 EXCEPT !.pumps[i].mode_b_accumulated_blowdown = 0]
         ELSE w

\* (a * m) / 1000 in uint32_t arithmetic: the product is reduced modulo 2^32
\* before the division.  Computed on 16-bit halves, for a < 2^31, m < 2^15.
Mul32Div1000(a, m) ==
    LET lo == (a % 65536) * m
        hi == ((a \div 65536) * m + (lo \div 65536)) % 65536
    IN  (hi \div 1000) * 65536 + (((hi % 1000) * 65536 + (lo % 65536)) \div 1000)

processModeC(w, i, c, t) ==
    LET w1 == IF w.pumps[i].mode_c_cycle_start = 0
              THEN [w EXCEPT !.pumps[i].mode_c_cycle_start = t]
              ELSE w
        cycle_time_ms == c.cycle_time_seconds * 1000
        on_time_ms == Mul32Div1000(cycle_time_ms, c.percent_of_time)
        elapsed == t - w1.pumps[i].mode_c_cycle_start
    IN  IF elapsed < on_time_ms
        THEN IF ~w1.pumps[i].running
             THEN ChemicalPump_start(w1, i, c, on_time_ms - elapsed, 0, t)
             ELSE w1
        ELSE IF elapsed >= cycle_time_ms
             THEN [w1 EXCEPT !.pumps[i].mode_c_cycle_start = t]
             ELSE IF w1.pumps[i].running THEN ChemicalPump_stop(w1, i) ELSE w1

\* variant that clears the count on a credit
processModeD_clearsCount(w, i, c, water_contacts, t) ==
    LET w1 == [w EXCEPT !.pumps[i].contact_count = @ + water_contacts]
        limit_ms == c.time_limit_seconds * 1000
        w2 == IF w1.pumps[i].contact_count >= c.contact_divider
              THEN LET fed == w1.pumps[i].accumulated_feed_time + c.time_per_contact_ms
                   IN  [w1 EXCEPT !.pumps[i].accumulated_feed_time =
                                     IF c.time_limit_seconds > 0 /\ fed > limit_ms
                                     THEN limit_ms ELSE fed,
                                  !.pumps[i].contact_count = 0]
              ELSE w1
    IN  IF w2.pumps[i].accumulated_feed_time > 0 /\ ~w2.pumps[i].running
        THEN ChemicalPump_start(
                 [w2 EXCEPT !.pumps[i].accumulated_feed_time = 0],
                 i, c, w2.pumps[i].accumulated_feed_time, 0, t)
        ELSE w2

processModeD(w, i, c, water_contacts, t) ==
    LET w1 == [w EXCEPT !.pumps[i].contact_count = @ + water_contacts]
        limit_ms == c.time_limit_seconds * 1000
        w2 == IF w1.pumps[i].contact_count >= c.contact_divider
              THEN LET fed == w1.pumps[i].accumulated_feed_time + c.time_per_contact_ms
                   IN  [w1 EXCEPT !.pumps[i].accumulated_feed_time =
                                     IF c.time_limit_seconds > 0 /\ fed > limit_ms
                                     THEN limit_ms ELSE fed,
                                  !.pumps[i].contact_count = @ - c.contact_divider]
              ELSE w1
    IN  IF w2.pumps[i].accumulated_feed_time > 0 /\ ~w2.pumps[i].running
        THEN ChemicalPump_start(
                 [w2 EXCEPT !.pumps[i].accumulated_feed_time = 0],
                 i, c, w2.pumps[i].accumulated_feed_time, 0, t)
        ELSE w2

\* variant of processModeE without the cap at the time limit
processModeE_noCap(w, i, c, water_volume, t) ==
    LET w1 == [w EXCEPT !.pumps[i].accumulated_volume = @ + water_volume]
        w2 == IF w1.pumps[i].accumulated_volume >= c.volume_to_initiate
              THEN [w1 EXCEPT !.pumps[i].accumulated_feed_time =
                                 @ + c.time_per_volume_ms,
                              !.pumps[i].accumulated_volume = @ - c.volume_to_initiate]
              ELSE w1
    IN  IF w2.pumps[i].accumulated_feed_time > 0 /\ ~w2.pumps[i].running
        THEN ChemicalPump_start(
                 [w2 EXCEPT !.pumps[i].accumulated_feed_time = 0],
                 i, c, w2.pumps[i].accumulated_feed_time, 0, t)
        ELSE w2

\* water_volume and accumulated_volume are floats in the code; the model
\* counts whole volume units
processModeE(w, i, c, water_volume, t) ==
    LET w1 == [w EXCEPT !.pumps[i].accumulated_volume = @ + water_volume]
        limit_ms == c.time_limit_seconds * 1000
        w2 == IF w1.pumps[i].accumulated_volume >= c.volume_to_initiate
              THEN LET fed == w1.pumps[i].accumulated_feed_time + c.time_per_volume_ms
                   IN  [w1 EXCEPT !.pumps[i].accumulated_feed_time =
                                     IF c.time_limit_seconds > 0 /\ fed > limit_ms
                                     THEN limit_ms ELSE fed,
                                  !.pumps[i].accumulated_volume = @ - c.volume_to_initiate]
              ELSE w1
    IN  IF w2.pumps[i].accumulated_feed_time > 0 /\ ~w2.pumps[i].running
        THEN ChemicalPump_start(
                 [w2 EXCEPT !.pumps[i].accumulated_feed_time = 0],
                 i, c, w2.pumps[i].accumulated_feed_time, 0, t)
        ELSE w2

\* variant without the return outside Auto
processFeedMode_noHoaCheck(w, i, c, blowdown_active, blowdown_time_ms, water_contacts, water_volume, t) ==
    IF ~w.pumps[i].enabled \/ ~c.present THEN w
    ELSE CASE c.feed_mode = FEED_MODE_A_BLOWDOWN_FEED ->
                processModeA(w, i, c, blowdown_active, t)
           [] c.feed_mode = FEED_MODE_B_PERCENT_BLOWDOWN ->
                processModeB(w, i, c, blowdown_active, blowdown_time_ms, t)
           [] c.feed_mode = FEED_MODE_C_PERCENT_TIME ->
                processModeC(w, i, c, t)
           [] c.feed_mode = FEED_MODE_D_WATER_CONTACT ->
                processModeD(w, i, c, water_contacts, t)
           [] c.feed_mode = FEED_MODE_E_PADDLEWHEEL ->
                processModeE(w, i, c, water_volume, t)
           [] OTHER -> w

processFeedMode(w, i, c, blowdown_active, blowdown_time_ms, water_contacts, water_volume, t) ==
    IF ~w.pumps[i].enabled \/ ~c.present THEN w
    ELSE IF w.pumps[i].hoa_mode # HOA_AUTO THEN w
    ELSE CASE c.feed_mode = FEED_MODE_A_BLOWDOWN_FEED ->
                processModeA(w, i, c, blowdown_active, t)
           [] c.feed_mode = FEED_MODE_B_PERCENT_BLOWDOWN ->
                processModeB(w, i, c, blowdown_active, blowdown_time_ms, t)
           [] c.feed_mode = FEED_MODE_C_PERCENT_TIME ->
                processModeC(w, i, c, t)
           [] c.feed_mode = FEED_MODE_D_WATER_CONTACT ->
                processModeD(w, i, c, water_contacts, t)
           [] c.feed_mode = FEED_MODE_E_PADDLEWHEEL ->
                processModeE(w, i, c, water_volume, t)
           [] OTHER -> w

\* for (i = 0; i < PUMP_COUNT; i++) _pumps[i]->update()
RECURSIVE updateFrom(_, _, _, _, _)
updateFrom(w, i, cs, t, stepped) ==
    IF i >= PUMP_COUNT THEN w
    ELSE updateFrom(ChemicalPump_update(w, i, cs[i], t, stepped[i]),
                    i + 1, cs, t, stepped)

\* variant of PumpManager_update without the emergency-stop check
PumpManager_update_noStopCheck(w, estop, cs, t, stepped) ==
    updateFrom(w, 0, cs, t, stepped)

PumpManager_update(w, estop, cs, t, stepped) ==
    IF estop THEN w ELSE updateFrom(w, 0, cs, t, stepped)

RECURSIVE processFeedModesFrom(_, _, _, _, _, _, _, _)
processFeedModesFrom(w, i, cs, blowdown_active, blowdown_time_ms, water_contacts, water_volume, t) ==
    IF i >= PUMP_COUNT THEN w
    ELSE processFeedModesFrom(
            processFeedMode(w, i, cs[i], blowdown_active, blowdown_time_ms,
                            water_contacts, water_volume, t),
            i + 1, cs, blowdown_active, blowdown_time_ms,
            water_contacts, water_volume, t)

PumpManager_processFeedModes(w, estop, cs, blowdown_active, blowdown_time_ms, water_contacts, water_volume, t) ==
    IF estop THEN w
    ELSE processFeedModesFrom(w, 0, cs, blowdown_active, blowdown_time_ms,
                              water_contacts, water_volume, t)

RECURSIVE stopAllFrom(_, _)
stopAllFrom(w, i) ==
    IF i >= PUMP_COUNT THEN w ELSE stopAllFrom(ChemicalPump_stop(w, i), i + 1)

\* stopAll(); digitalWrite(STEPPER_ENABLE_PIN, HIGH)
PumpManager_emergencyStop(w) == [stopAllFrom(w, 0) EXCEPT !.pin = FALSE]

-----------------------------------------------------------------------------
(* WaterMeter and WaterMeterManager *)

MeterIds == 0 .. 1

\* The two meters after the constructors and configure() with the default
\* contactor configuration, together with the counters the interrupt
\* handler owns (the statics meter_pulse_counts and meter_last_pulse_times).
\* The flow rate and the totalizer are left out: nothing in the control
\* core reads them.
WaterMeterManager ==
    [meter_pulse_counts |-> [i \in MeterIds |-> 0],
     meter_last_pulse_times |-> [i \in MeterIds |-> 0],
     meters |-> [i \in MeterIds |->
                    [volume_per_contact |-> WATER_METER_PULSES_PER_GAL,
                     pulse_count |-> 0,
                     last_query_pulse_count |-> 0,
                     last_query_volume |-> 0]]]

\* the interrupt handler: a pulse counts when the debounce time has passed
handleInterrupt(wm, meter_id, t) ==
    IF meter_id >= 2 THEN wm
    ELSE IF t - wm.meter_last_pulse_times[meter_id] >= WATER_METER_DEBOUNCE_MS
         THEN [wm EXCEPT !.meter_pulse_counts[meter_id] = @ + 1,
                         !.meter_last_pulse_times[meter_id] = t]
         ELSE wm

\* WaterMeter::update(), second half: _pulse_count = current_pulses, the
\* value copied from the handler's counter with interrupts disabled
WaterMeter_update(wm, meter_id, current_pulses) ==
    [wm EXCEPT !.meters[meter_id].pulse_count = current_pulses]

\* contactor meters: pulses * volume_per_contact
pulsesToVolume(m, pulses) == pulses * m.volume_per_contact

\* variant that leaves _last_query_pulse_count alone
getContactsSinceLast_noReset(wm, meter_id) ==
    [wm |-> wm,
     delta |-> wm.meters[meter_id].pulse_count
                 - wm.meters[meter_id].last_query_pulse_count]

\* WaterMeter::getContactsSinceLast(): the manager and the value returned
getContactsSinceLast(wm, meter_id) ==
    [wm |-> [wm EXCEPT !.meters[meter_id].last_query_pulse_count =
                           wm.meters[meter_id].pulse_count],
     delta |-> wm.meters[meter_id].pulse_count
                 - wm.meters[meter_id].last_query_pulse_count]

getVolumeSinceLast(wm, meter_id) ==
    LET m == wm.meters[meter_id]
        current == pulsesToVolume(m, m.pulse_count)
    IN  [wm |-> [wm EXCEPT !.meters[meter_id].last_query_volume = current],
         delta |-> current - m.last_query_volume]

\* WaterMeterManager::getContactsSinceLast(2): both meters
WaterMeterManager_getContactsSinceLast(wm) ==
    LET r0 == getContactsSinceLast(wm, 0)
        r1 == getContactsSinceLast(r0.wm, 1)
    IN  [wm |-> r1.wm, delta |-> r0.delta + r1.delta]

WaterMeterManager_getVolumeSinceLast(wm) ==
    LET r0 == getVolumeSinceLast(wm, 0)
        r1 == getVolumeSinceLast(r0.wm, 1)
    IN  [wm |-> r1.wm, delta |-> r0.delta + r1.delta]

\* The measurement task inside WaterMeterManager::update(): pc 0 and 2 are
\* before the copy of meter 0 and meter 1, pc 1 and 3 after it, with the
\* copy in current_pulses.  reported is the sum of the contacts the control
\* task has been given.
InitialMeterState ==
    [wm |-> WaterMeterManager, pc |-> 0, current_pulses |-> 0, reported |-> 0]

\* The control task before its first iteration: pc is the call of
\* taskControlLoop it is about to make; calls lists the calls the current
\* iteration has completed, update_out what update() left for it and fed
\* what it handed to processFeedModes().
InitialTask ==
    [pc |-> "update", calls |-> <<>>,
     update_out |-> [active |-> FALSE, accumulated_time |-> 0],
     fed |-> [active |-> FALSE, accumulated_time |-> 0],
     water_contacts |-> 0, water_volume |-> 0]

-----------------------------------------------------------------------------
(* FuzzyController (fuzzy_logic.cpp) *)

\* The floats of the fuzzy controller are fixed-point numbers here: crisp
\* input values and the parameters of the input sets count hundredths,
\* membership degrees and firing strengths count thousandths (ONE is 1.0f),
\* rule weights count tenths, and the rates of the result count hundredths
\* of a percent.  Divisions truncate.

\* a FuzzyController without configuration: _config == nullptr
NoFuzzyConfig ==
    [present |-> FALSE,
     cond_setpoint |-> 0, alk_setpoint |-> 0,
     sulfite_setpoint |-> 0, ph_setpoint |-> 0,
     cond_deadband |-> 0, alk_deadband |-> 0,
     sulfite_deadband |-> 0, ph_deadband |-> 0]

InputIds == 0 .. (FUZZY_MAX_INPUTS - 1)
OutputIds == 0 .. (FUZZY_MAX_OUTPUTS - 1)
ManualInputIds == {FUZZY_IN_TDS, FUZZY_IN_ALKALINITY, FUZZY_IN_SULFITE, FUZZY_IN_PH}

VL == TERM_VERY_LOW
LO == TERM_LOW
MD == TERM_MEDIUM
HI == TERM_HIGH
VH == TERM_VERY_HIGH
DC == DONT_CARE

Triangular(a, b, c) == [type |-> "MF_TRIANGULAR", params |-> <<a, b, c, 0>>]
Trapezoidal(a, b, c, d) == [type |-> "MF_TRAPEZOIDAL", params |-> <<a, b, c, d>>]

\* FuzzyController::initOutputVariables: every output has the same five sets
initOutputVariables ==
    [o \in OutputIds |->
        [min_value |-> 0, max_value |-> 100, num_sets |-> 5,
         sets |-> <<Triangular(0, 0, 25), Triangular(0, 25, 50),
                    Triangular(25, 50, 75), Triangular(50, 75, 100),
                    Triangular(75, 100, 100)>>]]

\* FuzzyController::initInputVariables and updateMembershipFunctions: the
\* input sets built around the setpoints of the configuration c; sets[k + 1]
\* is the C++ sets[k]
updateMembershipFunctions(c) ==
    LET tds == LET sp == c.cond_setpoint
                   db == c.cond_deadband
               IN  <<Trapezoidal(0, 0, (sp * 5) \div 10, (sp * 7) \div 10),
                     Triangular((sp * 5) \div 10, (sp * 75) \div 100, sp - db),
                     Triangular(sp - db * 2, sp, sp + db * 2),
                     Triangular(sp + db, (sp * 125) \div 100, (sp * 15) \div 10),
                     Trapezoidal((sp * 13) \div 10, (sp * 15) \div 10,
                                 500000, 500000)>>
        alk == LET sp == c.alk_setpoint
                   db == c.alk_deadband
               IN  <<Trapezoidal(0, 0, (sp * 3) \div 10, (sp * 5) \div 10),
                     Triangular((sp * 4) \div 10, (sp * 6) \div 10, sp - db),
                     Triangular(sp - db * 2, sp, sp + db * 2),
                     Triangular(sp + db, (sp * 14) \div 10, (sp * 18) \div 10),
                     Trapezoidal((sp * 15) \div 10, sp * 2, 100000, 100000)>>
        sulf == LET sp == c.sulfite_setpoint
                    db == c.sulfite_deadband
                IN  <<Trapezoidal(0, 0, (sp * 2) \div 10, (sp * 4) \div 10),
                      Triangular((sp * 3) \div 10, (sp * 5) \div 10, sp - db),
                      Triangular(sp - db * 2, sp, sp + db * 2),
                      Triangular(sp + db, (sp * 15) \div 10, sp * 2),
                      Trapezoidal((sp * 18) \div 10, (sp * 25) \div 10,
                                  10000, 10000)>>
        ph == LET sp == c.ph_setpoint
                  db == c.ph_deadband
              IN  <<Trapezoidal(700, 700, 900, 1000),
                    Triangular(950, 1050, sp - db),
                    Triangular(sp - db, sp, sp + db),
                    Triangular(sp + db, 1200, 1250),
                    Trapezoidal(1200, 1250, 1400, 1400)>>
        temp == <<Trapezoidal(0, 0, 2000, 4000),
                  Triangular(3000, 5000, 7000),
                  Trapezoidal(6000, 8000, 10000, 10000)>>
        trend == <<Trapezoidal(-10000, -10000, -3000, -1000),
                   Triangular(-2000, -500, 0),
                   Triangular(-500, 0, 500),
                   Triangular(0, 500, 2000),
                   Trapezoidal(1000, 3000, 10000, 10000)>>
        sets == <<tds, alk, sulf, ph, temp, trend>>
    IN  [i \in InputIds |-> [num_sets |-> Len(sets[i + 1]), sets |-> sets[i + 1]]]

Rule(a, c, weight) ==
    [antecedent |-> a, consequent |-> c, weight |-> weight, enabled |-> TRUE]

\* FuzzyController::loadDefaultRules: antecedent over <<Cond, Alk, Sulfite,
\* pH, Temp, Trend>>, consequent over <<Blowdown, Caustic, Sulfite, Acid>>
loadDefaultRules ==
    << Rule(<<VH, DC, DC, DC, DC, DC>>, <<VH, DC, DC, DC>>, 10),
       Rule(<<HI, DC, DC, DC, DC, DC>>, <<HI, DC, DC, DC>>, 10),
       Rule(<<MD, DC, DC, DC, DC, DC>>, <<VL, DC, DC, DC>>, 10),
       Rule(<<LO, DC, DC, DC, DC, DC>>, <<VL, DC, DC, DC>>, 10),
       Rule(<<HI, DC, DC, DC, DC, VH>>, <<VH, DC, DC, DC>>, 10),
       Rule(<<DC, VL, DC, DC, DC, DC>>, <<DC, VH, DC, DC>>, 10),
       Rule(<<DC, LO, DC, DC, DC, DC>>, <<DC, HI, DC, DC>>, 10),
       Rule(<<DC, MD, DC, DC, DC, DC>>, <<DC, VL, DC, DC>>, 10),
       Rule(<<DC, HI, DC, DC, DC, DC>>, <<MD, VL, DC, DC>>, 8),
       Rule(<<DC, VH, DC, DC, DC, DC>>, <<HI, VL, DC, DC>>, 9),
       Rule(<<DC, DC, VL, DC, DC, DC>>, <<DC, DC, VH, DC>>, 10),
       Rule(<<DC, DC, LO, DC, DC, DC>>, <<DC, DC, HI, DC>>, 10),
       Rule(<<DC, DC, MD, DC, DC, DC>>, <<DC, DC, LO, DC>>, 10),
       Rule(<<DC, DC, HI, DC, DC, DC>>, <<DC, DC, VL, DC>>, 10),
       Rule(<<DC, DC, VH, DC, DC, DC>>, <<LO, DC, VL, DC>>, 7),
       Rule(<<DC, DC, DC, VL, DC, DC>>, <<DC, HI, DC, VL>>, 10),
       Rule(<<DC, DC, DC, LO, DC, DC>>, <<DC, MD, DC, VL>>, 8),
       Rule(<<DC, DC, DC, MD, DC, DC>>, <<DC, VL, DC, VL>>, 5),
       Rule(<<DC, DC, DC, HI, DC, DC>>, <<DC, VL, DC, LO>>, 7),
       Rule(<<DC, DC, DC, VH, DC, DC>>, <<DC, VL, DC, MD>>, 9),
       Rule(<<HI, HI, DC, DC, DC, DC>>, <<VH, VL, DC, DC>>, 10),
       Rule(<<LO, LO, DC, DC, DC, DC>>, <<VL, HI, DC, DC>>, 9),
       Rule(<<DC, DC, LO, DC, HI, DC>>, <<DC, DC, VH, DC>>, 10),
       Rule(<<MD, MD, MD, DC, DC, DC>>, <<VL, VL, LO, VL>>, 10),
       Rule(<<DC, DC, DC, DC, DC, VH>>, <<MD, DC, DC, DC>>, 8) >>

\* fuzzy_result_t result = {0}
ZeroResult ==
    [blowdown_rate |-> 0, caustic_rate |-> 0, sulfite_rate |-> 0,
     acid_rate |-> 0, max_firing_strength |-> 0, active_rules |-> 0,
     dominant_rule |-> 0]

\* FuzzyController::FuzzyController: no configuration, no rules, the manual
\* values zeroed and invalid
FuzzyController ==
    [config |-> NoFuzzyConfig,
     inputs |-> [i \in InputIds |-> [num_sets |-> 0, sets |-> <<>>]],
     outputs |-> [o \in OutputIds |-> [min_value |-> 0, max_value |-> 0,
                                       num_sets |-> 0, sets |-> <<>>]],
     rules |-> <<>>,
     manual_values |-> [i \in InputIds |-> 0],
     manual_valid |-> [i \in InputIds |-> FALSE],
     result |-> ZeroResult]

\* FuzzyController::begin
FuzzyController_begin(f, c) ==
    IF ~c.present THEN f
    ELSE [f EXCEPT !.config = c,
                   !.outputs = initOutputVariables,
                   !.inputs = updateMembershipFunctions(c),
                   !.rules = loadDefaultRules]

\* FuzzyController::setManualInput
setManualInput(f, param, value, valid) ==
    IF param < FUZZY_MAX_INPUTS
    THEN [f EXCEPT !.manual_values[param] = value, !.manual_valid[param] = valid]
    ELSE f

\* FuzzyController::evaluateMF for the two function types the controller builds
evaluateMF(mf, value) ==
    LET a == mf.params[1]
        b == mf.params[2]
        c == mf.params[3]
        d == mf.params[4]
    IN  IF mf.type = "MF_TRIANGULAR"
        THEN IF value <= a \/ value >= c THEN 0
             ELSE IF value <= b THEN ((value - a) * ONE) \div (b - a)
             ELSE ((c - value) * ONE) \div (c - b)
        ELSE IF value <= a \/ value >= d THEN 0
             ELSE IF value >= b /\ value <= c THEN ONE
             ELSE IF value < b THEN ((value - a) * ONE) \div (b - a)
             ELSE ((d - value) * ONE) \div (d - c)

\* FuzzyController::fuzzify: the degrees of the sets of input var_idx;
\* degrees[k] is the C++ degrees[k]
fuzzify(f, var_idx, value) ==
    [k \in 0 .. (FUZZY_MAX_SETS - 1) |->
        IF k < f.inputs[var_idx].num_sets
        THEN evaluateMF(f.inputs[var_idx].sets[k + 1], value)
        ELSE 0]

\* evaluate(), an input without a valid manual value: memset to 0, [2] = 1.0f
assumeNormal ==
    [k \in 0 .. (FUZZY_MAX_SETS - 1) |-> IF k = 2 THEN ONE ELSE 0]

\* evaluate(), step 1: _input_membership
inputMembership(f, inputs) ==
    [i \in InputIds |->
        IF i \in ManualInputIds
        THEN IF f.manual_valid[i] THEN fuzzify(f, i, f.manual_values[i])
             ELSE assumeNormal
        ELSE IF i = FUZZY_IN_TEMPERATURE THEN fuzzify(f, i, inputs.temperature)
        ELSE fuzzify(f, i, inputs.cond_trend)]

\* a function as the table of its values, computed once
Table(f) == f @@ <<>>

tNormMin(a, b) == IF a < b THEN a ELSE b
sNormMax(a, b) == IF a > b THEN a ELSE b

\* evaluate(): what the antecedent of rule for input i contributes to the
\* minimum; a term that is DONT_CARE or not below num_sets is passed over,
\* which leaves the minimum as a degree of 1.0 would
antecedentDegree(f, membership, rule, i) ==
    LET term == rule.antecedent[i + 1]
    IN  IF term = DONT_CARE \/ term >= f.inputs[i].num_sets THEN ONE
        ELSE membership[i][term]

RECURSIVE minFrom(_, _, _, _)
minFrom(f, membership, rule, i) ==
    IF i >= FUZZY_MAX_INPUTS THEN ONE
    ELSE tNormMin(antecedentDegree(f, membership, rule, i),
                  minFrom(f, membership, rule, i + 1))

\* evaluate(): firing strength of a rule, weighted; 0 for a disabled rule
firingStrength(f, membership, rule) ==
    IF ~rule.enabled THEN 0
    ELSE (minFrom(f, membership, rule, 0) * rule.weight) \div 10

\* evaluate(), step 2: output_aggregation[o][x] over the rules from r on,
\* given their firing strengths fs; rules below 0.001 are skipped
RECURSIVE aggregateFrom(_, _, _, _, _)
aggregateFrom(f, fs, o, x, r) ==
    IF r > Len(f.rules) THEN 0
    ELSE LET term == f.rules[r].consequent[o + 1]
             rest == aggregateFrom(f, fs, o, x, r + 1)
         IN  IF fs[r] < 1 \/ term = DONT_CARE \/ term >= f.outputs[o].num_sets
             THEN rest
             ELSE sNormMax(rest,
                           tNormMin(evaluateMF(f.outputs[o].sets[term + 1], x),
                                    fs[r]))

\* the sum of g[x], or of x * g[x], over the samples lo .. hi, by halves
RECURSIVE sumOver(_, _, _, _)
sumOver(g, lo, hi, weighted) ==
    IF lo = hi THEN (IF weighted THEN lo * g[lo] ELSE g[lo])
    ELSE LET mid == (lo + hi) \div 2
         IN  sumOver(g, lo, mid, weighted) + sumOver(g, mid + 1, hi, weighted)

\* FuzzyController::defuzzify: centroid of the 101 samples
defuzzify(aggregated) ==
    LET sum_weighted == sumOver(aggregated, 0, FUZZY_RESOLUTION - 1, TRUE)
        sum_membership == sumOver(aggregated, 0, FUZZY_RESOLUTION - 1, FALSE)
    IN  IF sum_membership < 1 THEN 0
        ELSE (sum_weighted * 100) \div sum_membership

RECURSIVE dominantFrom(_, _, _, _)
dominantFrom(fs, r, best, dominant) ==
    IF r > Len(fs) THEN [max_firing_strength |-> best, dominant_rule |-> dominant]
    ELSE IF fs[r] >= 1 /\ fs[r] > best
         THEN dominantFrom(fs, r + 1, fs[r], r - 1)
         ELSE dominantFrom(fs, r + 1, best, dominant)

\* FuzzyController::evaluate
evaluate(f, inputs) ==
    IF ~f.config.present THEN ZeroResult
    ELSE LET membership == Table([i \in InputIds |->
                                    Table(inputMembership(f, inputs)[i])])
             fs == Table([r \in 1 .. Len(f.rules) |->
                             firingStrength(f, membership, f.rules[r])])
             rate(o) == defuzzify(Table([x \in 0 .. (FUZZY_RESOLUTION - 1) |->
                                            aggregateFrom(f, fs, o, x, 1)]))
             dom == dominantFrom(fs, 1, 0, 0)
         IN  [blowdown_rate |-> rate(FUZZY_OUT_BLOWDOWN),
              caustic_rate |-> rate(FUZZY_OUT_CAUSTIC),
              sulfite_rate |-> rate(FUZZY_OUT_SULFITE),
              acid_rate |-> rate(FUZZY_OUT_ACID),
              max_firing_strength |-> dom.max_firing_strength,
              active_rules |-> Cardinality({r \in 1 .. Len(fs) : fs[r] >= 1}),
              dominant_rule |-> dom.dominant_rule]

-----------------------------------------------------------------------------
(* State machine *)

\* the configuration main.cpp loads by default, with a time limit
DefaultBlowdownConfig ==
    [present |-> TRUE, setpoint |-> BLOW_DEFAULT_SETPOINT,
     deadband |-> BLOW_DEFAULT_DEADBAND,
     time_limit_seconds |-> TICK_MS \div 1000,
     control_direction |-> 0, ball_valve_delay |-> 0]

DefaultPumpConfig ==
    [present |-> TRUE, enabled |-> TRUE, feed_mode |-> FEED_MODE_DISABLED,
     lockout_seconds |-> 0, percent_of_blowdown |-> 0, max_time_seconds |-> 0,
     time_limit_seconds |-> 0, steps_per_ml |-> PUMP_DEFAULT_STEPS_PER_ML]

NoBdOp == [name |-> "init", flow_ok |-> TRUE]

World == [pumps |-> pumps, hand |-> pump_hand_start_time, pin |-> enable_pin]

\* setup(): controllers constructed and configured, clock at 0
InitWith(c, cc, pc) ==
    /\ now = 0
    /\ config = c
    /\ cond_config = cc
    /\ bd = BlowdownController(c)
    /\ bdOp = NoBdOp
    /\ pump_config = pc
    /\ pumps = [i \in PumpIds |-> ChemicalPump(pc[i])]
    /\ pump_hand_start_time = 0
    /\ enable_pin = FALSE
    /\ emergency_stop = FALSE
    /\ meter = InitialMeterState
    /\ task = InitialTask
    /\ fuzzy = FuzzyController

\* millis() advances
Tick ==
    /\ now < MaxTime
    /\ now' = now + TICK_MS
    /\ UNCHANGED <<bdVars, pumpVars, taskVars>>

\* keeps the accumulated totals finite: no call once they passed the horizon
BdBounded == bd.accumulated_blowdown_time <= MaxTime

BdCall(next, op) ==
    /\ BdBounded
    /\ bd' = next
    /\ bdOp' = op
    /\ UNCHANGED <<now, config, cond_config, pumpVars, taskVars>>

\* BlowdownController::update(conductivity, flow_ok)
BdUpdate ==
    \E v \in Conductivities, f \in BOOLEAN :
        BdCall(update(bd, config, cond_config, v, f, now),
               [name |-> "update", flow_ok |-> f])

\* BlowdownController::setHOA(mode)
BdSetHOA ==
    \E m \in hoa_mode_t :
        BdCall(setHOA(bd, config, m),
               [name |-> "setHOA", flow_ok |-> TRUE])

\* BlowdownController::openValve()
BdOpenValve ==
    BdCall(openValve(bd, config, now),
           [name |-> "openValve", flow_ok |-> TRUE])

\* BlowdownController::closeValve()
BdCloseValve ==
    BdCall(closeValve(bd, config, now),
           [name |-> "closeValve", flow_ok |-> TRUE])

\* BlowdownController::resetTimeout()
BdResetTimeout ==
    BdCall(resetTimeout(bd, config),
           [name |-> "resetTimeout", flow_ok |-> TRUE])

\* Continuous sampling (or no conductivity configuration, which update()
\* treats as Continuous), every blowdown configuration, every public call
InitBlowdown ==
    \E c \in BlowdownConfigs,
       cc \in {NoCondConfig} \cup CondConfigsOf({SAMPLE_MODE_CONTINUOUS}) :
        InitWith(c, cc, [i \in PumpIds |-> DefaultPumpConfig])

NextBlowdown ==
    \/ Tick
    \/ BdUpdate
    \/ BdSetHOA
    \/ BdOpenValve
    \/ BdCloseValve
    \/ BdResetTimeout

SpecBlowdown == InitBlowdown /\ [][NextBlowdown]_vars

\* The four sampling modes with a blowdown time limit, driven by the control
\* loop (update) and the operator (setHOA, resetTimeout)
InitSampling ==
    \E c \in {b \in BlowdownConfigs :
                b.present /\ b.time_limit_seconds > 0 /\ b.control_direction = 0},
       cc \in CondConfigsOf(sample_mode_t) :
        InitWith(c, cc, [i \in PumpIds |-> DefaultPumpConfig])

NextSampling ==
    \/ Tick
    \/ BdUpdate
    \/ BdSetHOA
    \/ BdResetTimeout

SpecSampling == InitSampling /\ [][NextSampling]_vars

-----------------------------------------------------------------------------
(* TimeProportional sampling over a range of proportional settings *)

\* prop_band: 0 (division by zero saturates), the smallest bands, the default
PropBands == {0, 1, 3, COND_DEFAULT_PROP_BAND}
\* max_prop_time_seconds: none, one second, one and two clock steps
MaxPropTimes == {0, 1, TICK_MS \div 1000, (2 * TICK_MS) \div 1000}

\* conductivities below, on and above the setpoint, inside, on and beyond
\* the proportional band
PropConductivities ==
    {config.setpoint + d : d \in {-1, 0, 1, 2, 3, 4,
                                  COND_DEFAULT_PROP_BAND \div 2,
                                  COND_DEFAULT_PROP_BAND - 1,
                                  COND_DEFAULT_PROP_BAND,
                                  COND_DEFAULT_PROP_BAND + 1}}

InitProportional ==
    \E c \in {b \in BlowdownConfigs :
                b.present /\ b.time_limit_seconds = 0 /\ b.control_direction = 0},
       cc \in CondConfigsOf({SAMPLE_MODE_TIME_PROPORTIONAL}),
       pb \in PropBands, mt \in MaxPropTimes :
        InitWith(c, [cc EXCEPT !.prop_band = pb, !.max_prop_time_seconds = mt],
                 [i \in PumpIds |-> DefaultPumpConfig])

\* BlowdownController::update(conductivity, true) in TimeProportional mode
BdUpdateProportional ==
    \E v \in PropConductivities :
        BdCall(update(bd, config, cond_config, v, TRUE, now),
               [name |-> "update", flow_ok |-> TRUE])

NextProportional ==
    \/ Tick
    \/ BdUpdateProportional

SpecProportional == InitProportional /\ [][NextProportional]_vars

-----------------------------------------------------------------------------
(* Pump actions *)

PumpCall(w) ==
    /\ pumps' = w.pumps
    /\ pump_hand_start_time' = w.hand
    /\ enable_pin' = w.pin
    /\ UNCHANGED <<now, bdVars, pump_config, emergency_stop, taskVars>>

\* contacts and volume units the water meters report for one iteration
WaterContacts == {0, 1, 2}
WaterVolumes == {0, 1, 2}

\* run durations a caller asks for: until stopped, or one clock step
Durations == {0, TICK_MS}

\* accumulated blowdown times handed to processFeedMode: none, small ones,
\* one clock step, the largest time whose 99 % share fits 32 bits and the
\* next one, and the largest the model's integers hold
BlowdownTimes == {0, 1, 100, TICK_MS, 43383508, 43383509, 2147483647}

\* ChemicalPump::update() of one pump
PumpUpdate(i) ==
    \E stepped \in BOOLEAN :
        PumpCall(ChemicalPump_update(World, i, pump_config[i], now, stepped))

\* ChemicalPump::start(duration_ms, 0)
PumpStart(i) ==
    \E d \in Durations :
        PumpCall(ChemicalPump_start(World, i, pump_config[i], d, 0, now))

\* ChemicalPump::stop()
PumpStop(i) ==
    PumpCall(ChemicalPump_stop(World, i))

\* ChemicalPump::setEnabled(enable)
PumpSetEnabled(i) ==
    \E e \in BOOLEAN :
        PumpCall(ChemicalPump_setEnabled(World, i, pump_config[i], e))

\* ChemicalPump::setHOA(mode)
PumpSetHOA(i) ==
    \E m \in hoa_mode_t :
        PumpCall(ChemicalPump_setHOA(World, i, pump_config[i], m))

\* ChemicalPump::prime(duration_ms)
PumpPrime(i) ==
    PumpCall(ChemicalPump_prime(World, i, pump_config[i], TICK_MS, now))

\* ChemicalPump::startCalibration(steps)
PumpStartCalibration(i) ==
    \E steps \in {1, 2} :
        PumpCall(ChemicalPump_startCalibration(World, i, steps, now))

\* ChemicalPump::processFeedMode(blowdown_active, ...)
PumpProcessFeedMode(i) ==
    \E b \in BOOLEAN, a \in BlowdownTimes,
       n \in WaterContacts, vol \in WaterVolumes :
        PumpCall(processFeedMode(World, i, pump_config[i], b, a, n, vol, now))

\* PumpManager::update()
MgrUpdate ==
    \E b \in BOOLEAN :
        PumpCall(PumpManager_update(World, emergency_stop, pump_config, now,
                                    [i \in PumpIds |-> b]))

\* One pump (PUMP_H2SO3) under every sequence of its public calls
InitPump ==
    \E c \in PumpConfigs :
        InitWith(DefaultBlowdownConfig, NoCondConfig,
                 [i \in PumpIds |-> IF i = 0 THEN c ELSE DefaultPumpConfig])

NextPump ==
    \/ Tick
    \/ PumpUpdate(0)
    \/ PumpStart(0)
    \/ PumpStop(0)
    \/ PumpSetEnabled(0)
    \/ PumpSetHOA(0)
    \/ PumpPrime(0)
    \/ PumpStartCalibration(0)
    \/ PumpProcessFeedMode(0)

SpecPump == InitPump /\ [][NextPump]_vars

\* The three pumps under the pump manager's tick and the operator's mode switch
InitPumpManager ==
    InitWith(DefaultBlowdownConfig, NoCondConfig,
             [i \in PumpIds |-> DefaultPumpConfig])

NextPumpManager ==
    \/ Tick
    \/ MgrUpdate
    \/ \E i \in PumpIds : PumpSetHOA(i)

SpecPumpManager == InitPumpManager /\ [][NextPumpManager]_vars

-----------------------------------------------------------------------------
(* The control loop: blowdown controller and pump manager together *)

\* One iteration of taskControlLoop (main.cpp:242-283): the blowdown update,
\* then the feed modes on the controller's isActive() and
\* getAccumulatedTime() and the water meters' deltas, then the pump update
taskControlLoop(s, w, c, cc, cs, estop, conductivity, flow_ok, water_contacts, water_volume, t, stepped) ==
    LET s1 == update(s, c, cc, conductivity, flow_ok, t)
        w1 == PumpManager_processFeedModes(w, estop, cs, isActive(s1),
                                           s1.accumulated_blowdown_time,
                                           water_contacts, water_volume, t)
        w2 == PumpManager_update(w1, estop, cs, t, [i \in PumpIds |-> stepped])
    IN  [bd |-> s1, w |-> w2]

\* the iteration applied to the current state
LoopResult(conductivity, flow_ok, water_contacts, water_volume, stepped) ==
    taskControlLoop(bd, World, config, cond_config, pump_config,
                    emergency_stop, conductivity, flow_ok,
                    water_contacts, water_volume, now, stepped)

ControlLoop ==
    \E v \in Conductivities, f \in BOOLEAN, stepped \in BOOLEAN,
       n \in WaterContacts, vol \in WaterVolumes :
        LET r == LoopResult(v, f, n, vol, stepped)
        IN  /\ BdBounded
            /\ bd' = r.bd
            /\ bdOp' = [name |-> "update", flow_ok |-> f]
            /\ pumps' = r.w.pumps
            /\ pump_hand_start_time' = r.w.hand
            /\ enable_pin' = r.w.pin
            /\ UNCHANGED <<now, config, cond_config, pump_config, emergency_stop,
                           taskVars>>

\* Continuous blowdown without a time limit, solenoid or motorized valve;
\* pump 0 in feed mode A or B
InitFeed ==
    \E c \in {b \in BlowdownConfigs :
                b.present /\ b.time_limit_seconds = 0 /\ b.control_direction = 0},
       pc \in FeedConfigs :
        InitWith(c, NoCondConfig,
                 [i \in PumpIds |-> IF i = 0 THEN pc ELSE DefaultPumpConfig])

NextFeed ==
    \/ Tick
    \/ ControlLoop

SpecFeed == InitFeed /\ [][NextFeed]_vars

\* Pump 0 in feed mode B under processFeedMode() and update() alone, with
\* accumulated blowdown times up to the largest values
InitModeB ==
    \E pc \in {c \in FeedConfigs : c.feed_mode = FEED_MODE_B_PERCENT_BLOWDOWN} :
        InitWith(DefaultBlowdownConfig, NoCondConfig,
                 [i \in PumpIds |-> IF i = 0 THEN pc ELSE DefaultPumpConfig])

NextModeB ==
    \/ Tick
    \/ PumpProcessFeedMode(0)
    \/ PumpUpdate(0)

SpecModeB == InitModeB /\ [][NextModeB]_vars

-----------------------------------------------------------------------------
(* Feed modes C, D and E under the control loop's pump calls *)

\* A pump configuration as initializeDefaults() leaves it: zeroed, enabled,
\* feed mode Disabled, the default steps per ml
BaseFeedConfig ==
    [present |-> TRUE, enabled |-> TRUE, feed_mode |-> FEED_MODE_DISABLED,
     lockout_seconds |-> 0, percent_of_blowdown |-> 0, max_time_seconds |-> 0,
     percent_of_time |-> 0, cycle_time_seconds |-> 0,
     time_per_contact_ms |-> 0, contact_divider |-> 0,
     time_per_volume_ms |-> 0, volume_to_initiate |-> 0,
     time_limit_seconds |-> 0, steps_per_ml |-> PUMP_DEFAULT_STEPS_PER_ML]

\* Mode C: a cycle of two clock steps or of two hours, on for 20 %, 50 % or
\* 99 % of it (percent_of_time counts tenths of a percent)
ModeCConfigs ==
    {[BaseFeedConfig EXCEPT !.feed_mode = FEED_MODE_C_PERCENT_TIME,
                            !.cycle_time_seconds = ct, !.percent_of_time = p] :
        ct \in {2 * (TICK_MS \div 1000), 7200}, p \in {200, 500, 990}}

\* Mode D: a credit of 2 s or 60 s for every 0, 1 or 3 contacts, without a
\* time limit or with one of 3 s
ModeDConfigs ==
    {[BaseFeedConfig EXCEPT !.feed_mode = FEED_MODE_D_WATER_CONTACT,
                            !.time_per_contact_ms = tpc, !.contact_divider = d,
                            !.time_limit_seconds = l] :
        tpc \in {2000, 60000}, d \in {0, 1, 3}, l \in {0, 3}}

\* Mode E: a credit of 2 s for every 1 or 3 volume units
ModeEConfigs ==
    {[BaseFeedConfig EXCEPT !.feed_mode = FEED_MODE_E_PADDLEWHEEL,
                            !.time_per_volume_ms = 2000, !.volume_to_initiate = v,
                            !.time_limit_seconds = l] :
        v \in {1, 3}, l \in {0, 3}}

\* The pump calls of one taskControlLoop iteration (main.cpp:274-283):
\* processFeedModes(), then update()
pumpIteration(w, estop, cs, blowdown_active, blowdown_time_ms, water_contacts, water_volume, t, stepped) ==
    PumpManager_update(
        PumpManager_processFeedModes(w, estop, cs, blowdown_active,
                                     blowdown_time_ms, water_contacts,
                                     water_volume, t),
        estop, cs, t, [i \in PumpIds |-> stepped])

\* The iteration as an action.  The control task starts after setup(), so
\* millis() is positive at its first iteration; the pending contacts and
\* the pending feed credits are kept within the model's bounds.
PumpLoop ==
    /\ now > 0
    /\ pumps[0].contact_count < MaxPending
    /\ pumps[0].accumulated_volume < MaxPending
    /\ pumps[0].accumulated_feed_time
           <= MaxPending * (pump_config[0].time_per_contact_ms
                              + pump_config[0].time_per_volume_ms)
    /\ \E b \in BOOLEAN, a \in {TICK_MS}, n \in WaterContacts,
          vol \in WaterVolumes, stepped \in BOOLEAN :
           PumpCall(pumpIteration(World, emergency_stop, pump_config,
                                  b, a, n, vol, now, stepped))

InitAutoDosing ==
    \E pc \in ModeCConfigs \cup ModeDConfigs \cup ModeEConfigs :
        InitWith(DefaultBlowdownConfig, NoCondConfig,
                 [i \in PumpIds |-> IF i = 0 THEN pc ELSE DefaultPumpConfig])

NextAutoDosing ==
    \/ Tick
    \/ PumpLoop

SpecAutoDosing == InitAutoDosing /\ [][NextAutoDosing]_vars

\* one configuration of each of the modes B, C, D and E (D with and
\* without a time limit), and the HOA selector
InitDosing ==
    \E pc \in {c \in ModeCConfigs :
                 c.percent_of_time = 200 /\ c.cycle_time_seconds < 7200}
              \cup {c \in ModeDConfigs :
                      c.contact_divider = 3 /\ c.time_per_contact_ms = 2000}
              \cup {c \in ModeEConfigs :
                      c.volume_to_initiate = 3 /\ c.time_limit_seconds = 0}
              \cup {[BaseFeedConfig EXCEPT
                        !.feed_mode = FEED_MODE_B_PERCENT_BLOWDOWN,
                        !.percent_of_blowdown = 50]} :
        InitWith(DefaultBlowdownConfig, NoCondConfig,
                 [i \in PumpIds |-> IF i = 0 THEN pc ELSE DefaultPumpConfig])

NextDosing ==
    \/ Tick
    \/ PumpLoop
    \/ PumpSetHOA(0)

SpecDosing == InitDosing /\ [][NextDosing]_vars

-----------------------------------------------------------------------------
(* The pump manager with its emergency stop *)

\* PumpManager::emergencyStop()
MgrEmergencyStop ==
    LET w == PumpManager_emergencyStop(World)
    IN  /\ pumps' = w.pumps
        /\ pump_hand_start_time' = w.hand
        /\ enable_pin' = w.pin
        /\ emergency_stop' = TRUE
        /\ UNCHANGED <<now, bdVars, pump_config, taskVars>>

\* pump 0 in Mode C or in Mode D, without a time limit
InitEmergencyStop ==
    \E pc \in {c \in ModeCConfigs :
                 c.percent_of_time = 200 /\ c.cycle_time_seconds < 7200}
              \cup {c \in ModeDConfigs :
                      /\ c.contact_divider = 3 /\ c.time_per_contact_ms = 2000
                      /\ c.time_limit_seconds = 0} :
        InitWith(DefaultBlowdownConfig, NoCondConfig,
                 [i \in PumpIds |-> IF i = 0 THEN pc ELSE DefaultPumpConfig])

\* the control loop's pump calls, the HOA selector and the emergency stop
NextEmergencyStop ==
    \/ Tick
    \/ PumpLoop
    \/ PumpSetHOA(0)
    \/ MgrEmergencyStop

SpecEmergencyStop == InitEmergencyStop /\ [][NextEmergencyStop]_vars

-----------------------------------------------------------------------------
(* The fuzzy controller under begin(), setManualInput() and evaluate() *)

\* Two configurations: TDS 2500 +/- 50 ppm, alkalinity 400 +/- 50 ppm,
\* sulfite 40 +/- 5 ppm, pH 11.0 +/- 0.5; and TDS 3000 +/- 100 ppm,
\* alkalinity 300 +/- 30 ppm, sulfite 30 +/- 5 ppm, pH 11.5 +/- 0.3
FuzzyConfigs ==
    {[present |-> TRUE,
      cond_setpoint |-> 250000, cond_deadband |-> 5000,
      alk_setpoint |-> 40000, alk_deadband |-> 5000,
      sulfite_setpoint |-> 4000, sulfite_deadband |-> 500,
      ph_setpoint |-> 1100, ph_deadband |-> 50],
     [present |-> TRUE,
      cond_setpoint |-> 300000, cond_deadband |-> 10000,
      alk_setpoint |-> 30000, alk_deadband |-> 3000,
      sulfite_setpoint |-> 3000, sulfite_deadband |-> 500,
      ph_setpoint |-> 1150, ph_deadband |-> 30]}

\* the setpoint of a manual input in configuration c
Setpoint(c, i) ==
    IF i = FUZZY_IN_TDS THEN c.cond_setpoint
    ELSE IF i = FUZZY_IN_ALKALINITY THEN c.alk_setpoint
    ELSE IF i = FUZZY_IN_SULFITE THEN c.sulfite_setpoint
    ELSE c.ph_setpoint

\* values an operator enters: the setpoints of the configurations
ManualValues(i) == {Setpoint(c, i) : c \in FuzzyConfigs}

\* 25 C with a steady conductivity, or 85 C with conductivity rising by 50
\* per minute
FuzzyInputs ==
    {[temperature |-> 2500, cond_trend |-> 0],
     [temperature |-> 8500, cond_trend |-> 5000]}

FuzzyBegin ==
    /\ ~fuzzy.config.present
    /\ \E c \in FuzzyConfigs : fuzzy' = FuzzyController_begin(fuzzy, c)
    /\ UNCHANGED <<now, bdVars, pumpVars, meter, task>>

\* the web server's handlers: a test value entered, or the values cleared
FuzzySetManualInput ==
    /\ \E i \in ManualInputIds :
        \/ \E v \in ManualValues(i) : fuzzy' = setManualInput(fuzzy, i, v, TRUE)
        \/ fuzzy' = setManualInput(fuzzy, i, 0, FALSE)
    /\ UNCHANGED <<now, bdVars, pumpVars, meter, task>>

FuzzyEvaluate ==
    /\ \E inputs \in FuzzyInputs :
        fuzzy' = [fuzzy EXCEPT !.result = evaluate(fuzzy, inputs)]
    /\ UNCHANGED <<now, bdVars, pumpVars, meter, task>>

InitFuzzy ==
    InitWith(DefaultBlowdownConfig, NoCondConfig,
             [i \in PumpIds |-> DefaultPumpConfig])

NextFuzzy ==
    \/ FuzzyBegin
    \/ FuzzySetManualInput
    \/ FuzzyEvaluate

SpecFuzzy == InitFuzzy /\ [][NextFuzzy]_vars

-----------------------------------------------------------------------------
(* The three controllers without their configurations *)

\* pump_config_t pointer not set: _config == nullptr
NoPumpConfig == [DefaultPumpConfig EXCEPT !.present = FALSE]

\* No blowdown, pump or fuzzy configuration; no conductivity configuration
\* either, or one for intermittent sampling
InitNoConfig ==
    \E cc \in {NoCondConfig} \cup CondConfigsOf({SAMPLE_MODE_INTERMITTENT}) :
        InitWith(NoBlowdownConfig, cc, [i \in PumpIds |-> NoPumpConfig])

NextNoConfig ==
    \/ Tick
    \/ BdUpdate
    \/ BdSetHOA
    \/ PumpSetHOA(0)
    \/ PumpProcessFeedMode(0)
    \/ FuzzyEvaluate

SpecNoConfig == InitNoConfig /\ [][NextNoConfig]_vars

-----------------------------------------------------------------------------
(* The water meter between interrupt handler, measurement task and control task *)

\* a falling edge on the pin of meter 0, the one meter begin() attaches
MeterInterrupt ==
    /\ meter' = [meter EXCEPT !.wm = handleInterrupt(@, 0, now)]
    /\ UNCHANGED <<now, bdVars, pumpVars, task, fuzzy>>

\* One step of the measurement task in WaterMeterManager::update(): the
\* copy of a meter's counter with interrupts disabled, or the assignment
\* of the copy to _pulse_count
MeasureStep ==
    /\ meter' =
         IF meter.pc \in {0, 2}
         THEN [meter EXCEPT !.current_pulses =
                               meter.wm.meter_pulse_counts[meter.pc \div 2],
                            !.pc = @ + 1]
         ELSE [meter EXCEPT !.wm = WaterMeter_update(@, meter.pc \div 2,
                                                     meter.current_pulses),
                            !.pc = (@ + 1) % 4]
    /\ UNCHANGED <<now, bdVars, pumpVars, task, fuzzy>>

\* The control task's getContactsSinceLast(2) and getVolumeSinceLast(2).
\* The control task has the higher priority on the same core, so the
\* measurement task does not run between its statements.
MeterQuery(m) ==
    LET r == WaterMeterManager_getContactsSinceLast(m.wm)
        v == WaterMeterManager_getVolumeSinceLast(r.wm)
    IN  [meter |-> [m EXCEPT !.wm = v.wm, !.reported = @ + r.delta],
         water_contacts |-> r.delta, water_volume |-> v.delta]

QueryMeters ==
    /\ meter' = MeterQuery(meter).meter
    /\ task' = [task EXCEPT !.water_contacts = MeterQuery(meter).water_contacts,
                            !.water_volume = MeterQuery(meter).water_volume]
    /\ UNCHANGED <<now, bdVars, pumpVars, fuzzy>>

InitMeter ==
    InitWith(DefaultBlowdownConfig, NoCondConfig,
             [i \in PumpIds |-> DefaultPumpConfig])

NextMeter ==
    \/ Tick
    \/ MeterInterrupt
    \/ MeasureStep
    \/ QueryMeters

SpecMeter == InitMeter /\ [][NextMeter]_vars

\* both tasks keep being scheduled
SpecMeterFair ==
    SpecMeter /\ WF_vars(MeasureStep) /\ WF_vars(QueryMeters)

-----------------------------------------------------------------------------
(* The control task, one call of taskControlLoop at a time *)

\* the calls of one iteration, in the order of the source
IterationCalls ==
    <<"update", "getContactsSinceLast", "evaluate", "processFeedModes",
      "PumpManager::update">>

\* a variant of blowdownArguments that hands over the values of start-up
\* instead of reading the controller
blowdownArguments_stale(s) ==
    [active |-> FALSE, accumulated_time |-> 0]

\* the first two arguments of processFeedModes(): isActive() and
\* getAccumulatedTime(), read when the call is made
blowdownArguments(s) ==
    [active |-> isActive(s), accumulated_time |-> s.accumulated_blowdown_time]

\* flow switch and conductivity read, blowdownController.update()
TaskUpdate ==
    /\ task.pc = "update"
    /\ BdBounded
    /\ \E v \in Conductivities, f \in BOOLEAN :
        /\ bd' = update(bd, config, cond_config, v, f, now)
        /\ bdOp' = [name |-> "update", flow_ok |-> f]
    /\ task' = [task EXCEPT
                   !.pc = "meters",
                   !.calls = <<"update">>,
                   !.update_out = [active |-> isActive(bd'),
                                   accumulated_time |->
                                       bd'.accumulated_blowdown_time]]
    /\ UNCHANGED <<now, config, cond_config, pumpVars, meter, fuzzy>>

\* waterMeterManager.getContactsSinceLast(2), getVolumeSinceLast(2)
TaskMeters ==
    /\ task.pc = "meters"
    /\ meter' = MeterQuery(meter).meter
    /\ task' = [task EXCEPT
                   !.pc = "evaluate",
                   !.calls = Append(@, "getContactsSinceLast"),
                   !.water_contacts = MeterQuery(meter).water_contacts,
                   !.water_volume = MeterQuery(meter).water_volume]
    /\ UNCHANGED <<now, bdVars, pumpVars, fuzzy>>

\* fuzzyController.evaluate() on 25 C and a trend of 0
TaskEvaluate ==
    /\ task.pc = "evaluate"
    /\ fuzzy' = [fuzzy EXCEPT
                    !.result = evaluate(fuzzy, [temperature |-> 2500,
                                                cond_trend |-> 0])]
    /\ task' = [task EXCEPT !.pc = "feed", !.calls = Append(@, "evaluate")]
    /\ UNCHANGED <<now, bdVars, pumpVars, meter>>

\* pumpManager.processFeedModes(isActive(), getAccumulatedTime(), ...)
TaskFeed ==
    /\ task.pc = "feed"
    /\ LET args == blowdownArguments(bd)
           w == PumpManager_processFeedModes(
                    World, emergency_stop, pump_config,
                    args.active, args.accumulated_time,
                    task.water_contacts, task.water_volume, now)
       IN  /\ pumps' = w.pumps
           /\ pump_hand_start_time' = w.hand
           /\ enable_pin' = w.pin
           /\ task' = [task EXCEPT !.pc = "pumps",
                                   !.calls = Append(@, "processFeedModes"),
                                   !.fed = args]
    /\ UNCHANGED <<now, bdVars, pump_config, emergency_stop, meter, fuzzy>>

\* pumpManager.update(), then the wait for the next period
TaskPumps ==
    /\ task.pc = "pumps"
    /\ \E stepped \in BOOLEAN :
        LET w == PumpManager_update(World, emergency_stop, pump_config, now,
                                    [i \in PumpIds |-> stepped])
        IN  /\ pumps' = w.pumps
            /\ pump_hand_start_time' = w.hand
            /\ enable_pin' = w.pin
    /\ task' = [task EXCEPT !.pc = "update",
                            !.calls = Append(@, "PumpManager::update")]
    /\ UNCHANGED <<now, bdVars, pump_config, emergency_stop, meter, fuzzy>>

\* Continuous blowdown without a time limit; pump 0 in feed mode A or in
\* feed mode B at 50 %, without lockout or feed cap; the fuzzy controller as
\* setup() leaves it
InitControlTask ==
    \E c \in {b \in BlowdownConfigs :
                b.present /\ b.time_limit_seconds = 0 /\ b.control_direction = 0},
       pc \in {f \in FeedConfigs :
                 /\ f.lockout_seconds = 0 /\ f.max_time_seconds = 0
                 /\ f.percent_of_blowdown \in {0, 50}} :
        InitWith(c, NoCondConfig,
                 [i \in PumpIds |-> IF i = 0 THEN pc ELSE DefaultPumpConfig])

\* the control task and the clock, which may advance between any two calls;
\* no other task writes the blowdown controller or the pumps
NextControlTask ==
    \/ Tick
    \/ TaskUpdate
    \/ TaskMeters
    \/ TaskEvaluate
    \/ TaskFeed
    \/ TaskPumps

SpecControlTask == InitControlTask /\ [][NextControlTask]_vars

-----------------------------------------------------------------------------
(* Properties of the blowdown controller *)

\* the valve is closed: relay de-energized and valve_open false
ValveClosed(s) == ~s.relay_energized /\ ~s.valve_open

AfterUpdate == bdOp.name = "update"

HandTimeoutMs == HOA_HAND_TIMEOUT_SEC * 1000

BlowdownLimitMs == config.time_limit_seconds * 1000

\* C1: no-flow interlock.  On return from every update() called with
\* flow_ok = false the valve is closed (relay de-energized and valve_open
\* false), whatever the operator mode, the sampling mode, the controller
\* state and the ball_valve_delay.
C1_NoFlowClosesValve ==
    (AfterUpdate /\ ~bdOp.flow_ok) => ValveClosed(bd)

C3_TimeoutSuspendsAuto ==
    (bd.timeout_flag /\ bd.hoa_mode = HOA_AUTO) =>
        \A v \in Conductivities, f \in BOOLEAN :
            LET s == update(bd, config, cond_config, v, f, now)
            IN  /\ s.timeout_flag
                /\ ~bd.relay_energized => ~s.relay_energized
                /\ ValveClosed(bd) => ValveClosed(s)
                /\ (~bd.valve_open /\ s.valve_open) =>
                       (bd.state = BD_STATE_VALVE_OPENING /\ bd.relay_energized)

\* C3 witness: timed out, back in IDLE with the valve closed, in Auto, updated
\* with flow: the state in which every sampling mode would otherwise open
C3_Witness ==
    /\ AfterUpdate /\ bdOp.flow_ok
    /\ bd.timeout_flag
    /\ bd.hoa_mode = HOA_AUTO
    /\ bd.state = BD_STATE_IDLE
    /\ ValveClosed(bd)

\* C4: the blowdown timeout is latched.  No step other than resetTimeout()
\* takes timeout_flag from set to clear (update() with or without flow,
\* setHOA(), openValve(), closeValve() all keep it), and on return from
\* resetTimeout() timeout_flag and waiting_for_reset are clear and the state is
\* IDLE.
C4_TimeoutLatched ==
    /\ [][(bd.timeout_flag /\ ~bd'.timeout_flag) =>
              bdOp'.name = "resetTimeout"]_vars
    /\ [](bdOp.name = "resetTimeout" =>
              /\ ~bd.timeout_flag
              /\ ~bd.waiting_for_reset
              /\ bd.state = BD_STATE_IDLE)

\* C4 witness: the flag is still set on return from a no-flow update()
C4_Witness ==
    /\ AfterUpdate /\ ~bdOp.flow_ok
    /\ bd.timeout_flag
    /\ bd.waiting_for_reset

\* the configuration C7 speaks of: Continuous sampling (every configuration
\* of SpecBlowdown), direction HIGH, solenoid valve, no time limit, Auto
HysteresisCase ==
    /\ config.present
    /\ config.control_direction = 0
    /\ config.ball_valve_delay = 0
    /\ config.time_limit_seconds = 0
    /\ bd.hoa_mode = HOA_AUTO

\* C7: continuous-mode hysteresis.  In the configuration above, with flow:
\* after update(v) with v > setpoint the valve is open; an update() that
\* closes an open valve has v < setpoint - deadband; and for
\* setpoint - deadband <= v <= setpoint the valve and the relay are left as
\* they were.
C7_ContinuousHysteresis ==
    HysteresisCase =>
        \A v \in Conductivities :
            LET s == update(bd, config, cond_config, v, TRUE, now)
            IN  /\ v > config.setpoint =>
                       (s.valve_open /\ s.relay_energized)
                /\ (bd.valve_open /\ ~s.valve_open) =>
                       v < config.setpoint - config.deadband
                /\ (config.setpoint - config.deadband <= v /\ v <= config.setpoint) =>
                       /\ s.valve_open = bd.valve_open
                       /\ s.relay_energized = bd.relay_energized

\* C7 witness: the valve has been opened, closed after a measured discharge
\* and opened again by update()
C7_Witness ==
    /\ HysteresisCase
    /\ AfterUpdate /\ bdOp.flow_ok
    /\ bd.valve_open
    /\ bd.state = BD_STATE_BLOWING_DOWN
    /\ bd.accumulated_blowdown_time > 0

\* C8: blowdown Hand mode.  With the operator mode Hand and flow present,
\* update() drives the valve open (relay energized), and the update() made
\* 600 s later closes it (processHOA de-energizes the relay) and leaves the
\* operator mode Auto; for every ball_valve_delay.
C8_HandOpensThenRevertsToAuto ==
    bd.hoa_mode = HOA_HAND =>
        \A v1, v2 \in Conductivities :
            LET s1 == update(bd, config, cond_config, v1, TRUE, now)
                h2 == processHOA(s1, config, now + HandTimeoutMs)
                s2 == update(s1, config, cond_config, v2, TRUE,
                             now + HandTimeoutMs)
            IN  s1.hoa_mode = HOA_HAND =>
                    /\ s1.relay_energized
                    /\ ~h2.relay_energized
                    /\ s2.hoa_mode = HOA_AUTO

\* C9: Off mode.  On return from every update() with flow present and the
\* operator mode Off the valve is closed, whatever state the controller was in
\* when Off was selected.
C9_OffClosesValve ==
    (AfterUpdate /\ bdOp.flow_ok /\ bd.hoa_mode = HOA_OFF) => ValveClosed(bd)

-----------------------------------------------------------------------------
(* Properties of the pumps *)

PumpLimitMs(i) == pump_config[i].time_limit_seconds * 1000

\* C5: pump time-limit trigger.  For a pump with time_limit_seconds > 0, an
\* update() that finds the pump running (and not stopped by the operator mode)
\* with a recorded runtime of at least the limit leaves it not running, the
\* driver disabled and the state PUMP_STATE_LOCKED_OUT; and on return from
\* every update() the recorded runtime of a running pump is the time since its
\* run began.
C5_PumpTimeLimitLocksOut ==
    pump_config[0].time_limit_seconds > 0 =>
        \A stepped \in BOOLEAN :
            LET w1 == ChemicalPump_processHOA(World, 0, pump_config[0], now)
                w == ChemicalPump_update(World, 0, pump_config[0], now, stepped)
            IN  /\ (pumps[0].running /\ w1.pumps[0].running
                        /\ pumps[0].runtime_ms >= PumpLimitMs(0)) =>
                       /\ ~w.pumps[0].running
                       /\ ~w.pin
                       /\ w.pumps[0].state = PUMP_STATE_LOCKED_OUT
                /\ w.pumps[0].running =>
                       w.pumps[0].runtime_ms = now - w.pumps[0].start_time

\* C5 witness: a pump stopped and locked out by its time limit
C5_Witness ==
    /\ pump_config[0].time_limit_seconds > 0
    /\ pumps[0].state = PUMP_STATE_LOCKED_OUT
    /\ pumps[0].runtime_ms >= PumpLimitMs(0)
    /\ ~pumps[0].running
    /\ ~enable_pin

PumpHeldLockedOut(w, i) ==
    w.pumps[i].state = PUMP_STATE_LOCKED_OUT /\ ~w.pumps[i].running

\* C6: pump lockout is latched.  A pump in PUMP_STATE_LOCKED_OUT is neither
\* run nor taken out of that state by the following tick (feed mode, Hand
\* override in update()), by prime() or by startCalibration().
C6_LockoutLatched ==
    pumps[0].state = PUMP_STATE_LOCKED_OUT =>
        /\ \A b \in BOOLEAN, a \in BlowdownTimes,
              n \in WaterContacts, vol \in WaterVolumes :
               PumpHeldLockedOut(
                   processFeedMode(World, 0, pump_config[0], b, a, n, vol, now), 0)
        /\ \A stepped \in BOOLEAN :
               PumpHeldLockedOut(
                   ChemicalPump_update(World, 0, pump_config[0], now, stepped), 0)
        /\ PumpHeldLockedOut(
               ChemicalPump_prime(World, 0, pump_config[0], TICK_MS, now), 0)
        /\ \A steps \in {1, 2} :
               PumpHeldLockedOut(
                   ChemicalPump_startCalibration(World, 0, steps, now), 0)

\* C10: pump Hand mode, per pump.  On return from every PumpManager::update()
\* a pump whose operator mode is Hand is running a Hand run begun less than
\* 600 s ago (at 600 s update() has stopped it and set its mode to Auto),
\* whatever the other pumps' modes are and whenever they entered Hand.
C10_HandTimeoutPerPump ==
    \A b \in BOOLEAN :
        LET w == PumpManager_update(World, emergency_stop, pump_config, now,
                                    [i \in PumpIds |-> b])
        IN  \A i \in PumpIds :
                w.pumps[i].hoa_mode = HOA_HAND =>
                    /\ w.pumps[i].running
                    /\ now - w.pumps[i].start_time < HandTimeoutMs

\* C11: forced stop.  setEnabled(false) leaves a running pump not running; a
\* pump whose operator mode is Off is not running on return from update(); a
\* disabled pump is never running, and start(), prime(), startCalibration(),
\* processFeedMode() and update() (Hand-mode processing) leave it not running.
C11_ForcedStop ==
    LET c == pump_config[0]
        stopped(w) == ~w.pumps[0].running
    IN  /\ pumps[0].running =>
               stopped(ChemicalPump_setEnabled(World, 0, c, FALSE))
        /\ pumps[0].hoa_mode = HOA_OFF =>
               \A stepped \in BOOLEAN :
                   stopped(ChemicalPump_update(World, 0, c, now, stepped))
        /\ ~pumps[0].enabled =>
               /\ ~pumps[0].running
               /\ \A d \in Durations :
                      stopped(ChemicalPump_start(World, 0, c, d, 0, now))
               /\ stopped(ChemicalPump_prime(World, 0, c, TICK_MS, now))
               /\ \A steps \in {1, 2} :
                      stopped(ChemicalPump_startCalibration(World, 0, steps, now))
               /\ \A b \in BOOLEAN, a \in BlowdownTimes,
                     n \in WaterContacts, vol \in WaterVolumes :
                      stopped(processFeedMode(World, 0, c, b, a, n, vol, now))
               /\ \A stepped \in BOOLEAN :
                      stopped(ChemicalPump_update(World, 0, c, now, stepped))

\* C11 witness: a pump that has run, was disabled while in Hand mode and is
\* stopped
C11_Witness ==
    /\ ~pumps[0].enabled
    /\ pumps[0].hoa_mode = HOA_HAND
    /\ ~pumps[0].running
    /\ pumps[0].runtime_ms > 0

-----------------------------------------------------------------------------
(* Properties of the valve travel and of the sampling cycles *)

BallValveDelayMs == config.ball_valve_delay * 1000

\* C12: ball-valve delay.  With ball_valve_delay > 0, for every update() with
\* flow, in every sampling mode and operator mode: an update() that energizes
\* the relay (an open command) leaves the state VALVE_OPENING and one that
\* de-energizes it (a close command) leaves the state VALVE_CLOSING;
\* valve_open changes only in an update() that finds the controller in one of
\* these two states with ball_valve_delay seconds elapsed in it, and such an
\* update() does record the valve open (BLOWING_DOWN) or closed (IDLE).  With
\* ball_valve_delay = 0, valve_open follows the relay at once.
C12_BallValveDelay ==
    config.present =>
        \A v \in Conductivities :
            LET s == update(bd, config, cond_config, v, TRUE, now)
                travelling == bd.state \in {BD_STATE_VALVE_OPENING,
                                            BD_STATE_VALVE_CLOSING}
                elapsed == now - bd.valve_action_start >= BallValveDelayMs
            IN  IF config.ball_valve_delay > 0
                THEN /\ (~bd.relay_energized /\ s.relay_energized) =>
                            s.state = BD_STATE_VALVE_OPENING
                     /\ (bd.relay_energized /\ ~s.relay_energized) =>
                            s.state = BD_STATE_VALVE_CLOSING
                     /\ s.valve_open # bd.valve_open => (travelling /\ elapsed)
                     /\ (bd.state = BD_STATE_VALVE_OPENING /\ elapsed) =>
                            (s.valve_open /\ s.state = BD_STATE_BLOWING_DOWN)
                     /\ (bd.state = BD_STATE_VALVE_CLOSING /\ elapsed) =>
                            (~s.valve_open /\ s.state = BD_STATE_IDLE)
                ELSE s.relay_energized # bd.relay_energized =>
                            s.valve_open = s.relay_energized

\* a discharge is in progress: state BLOWING_DOWN with the valve open
Discharging(s) ==
    s.state = BD_STATE_BLOWING_DOWN /\ s.valve_open /\ s.relay_energized

\* the valve was closed from s to s2, and what was added to the two totals
ClosedWithAccounting(s, s2, elapsed) ==
    ~s2.relay_energized =>
        /\ s2.accumulated_blowdown_time = s.accumulated_blowdown_time + elapsed
        /\ s2.total_blowdown_time = s.total_blowdown_time + (elapsed \div 1000)

\* C13: blowdown time accounting.  On return from every update() with flow
\* that leaves a discharge in progress, current_blowdown_time is the time
\* since the valve opened; and every update() (with or without flow, in any
\* operator mode) or closeValve() that closes the valve during a discharge
\* adds that recorded duration to accumulated_blowdown_time (ms) and to
\* total_blowdown_time (s); for every ball_valve_delay.
C13_BlowdownTimeAccounting ==
    /\ \A v \in Conductivities :
           LET s == update(bd, config, cond_config, v, TRUE, now)
           IN  Discharging(s) =>
                   s.current_blowdown_time = now - s.blowdown_start_time
    /\ Discharging(bd) =>
           /\ \A v \in Conductivities, f \in BOOLEAN :
                  ClosedWithAccounting(
                      bd, update(bd, config, cond_config, v, f, now),
                      bd.current_blowdown_time)
           /\ ClosedWithAccounting(bd, closeValve(bd, config, now),
                                   bd.current_blowdown_time)


\* the controller is under automatic control and no timeout is pending
AutoControl(s) ==
    /\ config.present /\ cond_config.present
    /\ s.hoa_mode = HOA_AUTO
    /\ ~s.waiting_for_reset /\ ~s.timeout_flag

IntervalMs == cond_config.interval_seconds * 1000
DurationMs == cond_config.duration_seconds * 1000
HoldTimeMs == cond_config.hold_time_seconds * 1000

\* a sample cycle is due: Idle or Waiting and the interval has elapsed
SampleDue(s) ==
    /\ AutoControl(s)
    /\ s.state \in {BD_STATE_IDLE, BD_STATE_WAITING}
    /\ now - s.interval_timer >= IntervalMs

\* the hold period of a cycle has ended
HoldEnded(s) ==
    /\ AutoControl(s)
    /\ s.state = BD_STATE_HOLDING
    /\ now - s.hold_timer >= HoldTimeMs

\* the controller is sampling: the valve is open (or being driven open
\* when it is motorized) and the state is Sampling
InSampling(s) ==
    /\ s.relay_energized
    /\ \/ s.state = BD_STATE_SAMPLING /\ s.valve_open
       \/ config.ball_valve_delay > 0 /\ s.state = BD_STATE_VALVE_OPENING

\* C14: Intermittent cycle.  When a sample cycle is due, update() opens the
\* valve and enters Sampling, and a further update() before duration_seconds
\* has elapsed keeps the valve open whatever the conductivity; when the hold
\* period has ended, update() re-enters Sampling above the setpoint and
\* enters Waiting with the valve closed otherwise.
C14_IntermittentCycle ==
    cond_config.sample_mode = SAMPLE_MODE_INTERMITTENT =>
        \A v \in Conductivities :
            LET s == update(bd, config, cond_config, v, TRUE, now)
            IN  /\ SampleDue(bd) =>
                       /\ InSampling(s)
                       /\ DurationMs > 0 =>
                              \A v2 \in Conductivities :
                                  update(s, config, cond_config, v2, TRUE, now).relay_energized
                /\ HoldEnded(bd) =>
                       IF v > config.setpoint
                       THEN InSampling(s)
                       ELSE s.state = BD_STATE_WAITING /\ ~s.relay_energized


IntervalModes ==
    {SAMPLE_MODE_INTERMITTENT, SAMPLE_MODE_TIMED_BLOWDOWN,
     SAMPLE_MODE_TIME_PROPORTIONAL}

\* Auto, an interval mode, and the interval since the last cycle began has
\* not elapsed
BeforeInterval(s) ==
    /\ config.present /\ cond_config.present
    /\ cond_config.sample_mode \in IntervalModes
    /\ s.hoa_mode = HOA_AUTO
    /\ now - s.interval_timer < IntervalMs

\* C15 (as stated): in Auto with an interval mode, update() never opens the
\* valve before interval_seconds has elapsed since the last sample cycle
\* began, regardless of conductivity.
C15_Original ==
    (BeforeInterval(bd) /\ ~bd.relay_energized) =>
        \A v \in Conductivities, f \in BOOLEAN :
            ~update(bd, config, cond_config, v, f, now).relay_energized

\* C15: interval gating of the cycle start.  In Auto with an interval mode
\* and the controller in Idle or Waiting, update() does not open the valve
\* and does not begin a sample cycle before interval_seconds has elapsed
\* since the last sample cycle began, regardless of conductivity.
C15_IntervalGating ==
    (BeforeInterval(bd) /\ bd.state \in {BD_STATE_IDLE, BD_STATE_WAITING}
                        /\ ~bd.relay_energized) =>
        \A v \in Conductivities, f \in BOOLEAN :
            LET s == update(bd, config, cond_config, v, f, now)
            IN  ~s.relay_energized /\ s.interval_timer = bd.interval_timer

\* a cycle has begun, has ended in Waiting, and the next one is not yet due
C15_Witness ==
    /\ BeforeInterval(bd)
    /\ bd.state = BD_STATE_WAITING /\ ~bd.relay_energized
    /\ bd.interval_timer > 0 /\ now > bd.interval_timer
    /\ AfterUpdate


BlowTimeMs == cond_config.blow_time_seconds * 1000

\* the fixed discharge of TimedBlowdown, started at the current time in
\* state s of a solenoid valve: a later update() at time t2 keeps the valve
\* open exactly while blow_time_seconds has not elapsed, whatever the
\* conductivity
FixedDischarge(s) ==
    /\ s.relay_energized
    /\ config.ball_valve_delay = 0 =>
           \A v2 \in Conductivities, t2 \in {now, now + TICK_MS} :
               update(s, config, cond_config, v2, TRUE, t2).relay_energized
                   <=> (t2 - now < BlowTimeMs)

\* C16: TimedBlowdown cycle.  When a sample cycle is due, update() opens the
\* valve and enters Sampling, and a further update() before duration_seconds
\* has elapsed keeps the valve open; when the hold period ends above the
\* setpoint the valve is opened for blow_time_seconds independent of the
\* conductivity during the discharge, and otherwise the controller enters
\* Waiting with the valve closed.
C16_TimedBlowdownCycle ==
    cond_config.sample_mode = SAMPLE_MODE_TIMED_BLOWDOWN =>
        \A v \in Conductivities :
            LET s == update(bd, config, cond_config, v, TRUE, now)
            IN  /\ SampleDue(bd) =>
                       /\ InSampling(s)
                       /\ DurationMs > 0 =>
                              \A v2 \in Conductivities :
                                  update(s, config, cond_config, v2, TRUE, now).relay_energized
                /\ HoldEnded(bd) =>
                       IF v > config.setpoint
                       THEN FixedDischarge(s)
                       ELSE s.state = BD_STATE_WAITING /\ ~s.relay_energized


MaxPropTimeMs == cond_config.max_prop_time_seconds * 1000

\* C17: TimeProportional discharge time.  calculateProportionalTime is 0 for
\* conductivity at or below the setpoint, is non-decreasing in the
\* conductivity, equals deviation * max_prop_time / prop_band (truncated to
\* a millisecond) inside the proportional band and exactly max_prop_time for
\* a positive deviation of prop_band or more; and it is the discharge time
\* update() sets when the hold period ends above the setpoint.
C17_ProportionalTime ==
    \A v1 \in PropConductivities, v2 \in PropConductivities :
        LET time(v) == calculateProportionalTime(config, cond_config, v)
            deviation == v1 - config.setpoint
        IN  /\ deviation <= 0 => time(v1) = 0
            /\ v1 <= v2 => time(v1) <= time(v2)
            /\ (deviation > 0 /\ deviation < cond_config.prop_band) =>
                   time(v1) = (deviation * MaxPropTimeMs) \div cond_config.prop_band
            /\ (deviation > 0 /\ deviation >= cond_config.prop_band) =>
                   time(v1) = MaxPropTimeMs
            /\ (HoldEnded(bd) /\ deviation > 0) =>
                   LET s == update(bd, config, cond_config, v1, TRUE, now)
                   IN  s.relay_energized /\ s.prop_blowdown_time = time(v1)

\* a discharge is running whose time is a proper fraction of max_prop_time
C17_Witness ==
    /\ cond_config.sample_mode = SAMPLE_MODE_TIME_PROPORTIONAL
    /\ AfterUpdate
    /\ bd.relay_energized
    /\ bd.prop_blowdown_time > 0
    /\ bd.prop_blowdown_time < MaxPropTimeMs


(* Properties of the feed modes under the control loop *)

LockoutMs == pump_config[0].lockout_seconds * 1000

\* pump 0 has used up its lockout_seconds in the blowdown that is still
\* active: the previous iteration saw the blowdown active, and the run it
\* started or continued was ended at the lockout time
LockoutUsedUp ==
    /\ isActive(bd)
    /\ pumps[0].mode_a_was_blowing
    /\ ~pumps[0].running
    /\ pump_config[0].lockout_seconds > 0
    /\ pumps[0].time_limited
    /\ now - pumps[0].start_time >= LockoutMs

\* C18: Mode A under the control loop.  After every iteration the pump is
\* stopped when the blowdown is not active; without a lockout it is running
\* when the blowdown is active; with lockout_seconds > 0 a run that has
\* lasted lockout_seconds is ended by the iteration, and once the lockout is
\* used up the pump is not run again while the same blowdown stays active.
C18_ModeAFollowsBlowdown ==
    pump_config[0].feed_mode = FEED_MODE_A_BLOWDOWN_FEED =>
        \A v \in Conductivities, f \in BOOLEAN, stepped \in BOOLEAN,
           n \in WaterContacts, vol \in WaterVolumes :
            LET r == LoopResult(v, f, n, vol, stepped)
                running == r.w.pumps[0].running
            IN  /\ ~isActive(r.bd) => ~running
                /\ (isActive(r.bd) /\ pump_config[0].lockout_seconds = 0) => running
                /\ (pumps[0].running /\ pump_config[0].lockout_seconds > 0
                      /\ now - pumps[0].start_time >= LockoutMs) => ~running
                /\ (LockoutUsedUp /\ isActive(r.bd)) => ~running


\* C19: Mode B end to end.  In the control-loop iteration in which the
\* blowdown ends, the pump is started for the Mode B share of the blowdown
\* time the controller has accumulated up to and including the blowdown that
\* just ended (and is left stopped when that share is zero).
C19_ModeBEndToEnd ==
    pump_config[0].feed_mode = FEED_MODE_B_PERCENT_BLOWDOWN =>
        \A v \in Conductivities, f \in BOOLEAN, stepped \in BOOLEAN,
           n \in WaterContacts, vol \in WaterVolumes :
            LET r == LoopResult(v, f, n, vol, stepped)
                p == r.w.pumps[0]
                feed_time == ModeBFeedTime(pump_config[0],
                                           r.bd.accumulated_blowdown_time)
            IN  (isActive(bd) /\ ~isActive(r.bd)) =>
                    IF feed_time > 0
                    THEN /\ p.running /\ p.time_limited
                         /\ p.start_time = now
                         /\ p.target_time_ms = feed_time
                    ELSE ~p.running


\* pump 0 holds a latched blowdown time and is ready to feed
ModeBReady ==
    /\ pump_config[0].feed_mode = FEED_MODE_B_PERCENT_BLOWDOWN
    /\ pumps[0].enabled /\ pumps[0].hoa_mode = HOA_AUTO
    /\ pumps[0].state # PUMP_STATE_LOCKED_OUT
    /\ ~pumps[0].running
    /\ pumps[0].mode_b_accumulated_blowdown > 0

\* C20: Mode B feed time.  When the blowdown is no longer active, the pump
\* that latched the accumulated blowdown time a is started for
\* a * percent_of_blowdown / 100 ms, capped at max_time_seconds * 1000 when
\* that is positive (and is not started when the result is 0), for every
\* percent and every a: the product is not reduced modulo 2^32.
C20_ModeBFeedTime ==
    ModeBReady =>
        \A a \in BlowdownTimes :
            LET c == pump_config[0]
                exact == Mul32Div100_exact(pumps[0].mode_b_accumulated_blowdown,
                                           c.percent_of_blowdown)
                max_ms == c.max_time_seconds * 1000
                feed_time == IF c.max_time_seconds > 0 /\ exact > max_ms
                             THEN max_ms ELSE exact
                p == processFeedMode(World, 0, c, FALSE, a, 0, 0, now).pumps[0]
            IN  IF feed_time > 0
                THEN p.running /\ p.time_limited /\ p.target_time_ms = feed_time
                ELSE ~p.running


-----------------------------------------------------------------------------
(* Feed modes C and D, and the Hand override *)

\* the window and the on-time of Mode C as configured, in milliseconds:
\* cycle_time_seconds * 1000 and percent_of_time thousandths of it
ModeCCycleMs == pump_config[0].cycle_time_seconds * 1000
ModeCOnMs == pump_config[0].cycle_time_seconds * pump_config[0].percent_of_time

\* instants after the current one at which an iteration is looked at: now,
\* the ends of the on-time and of the window counted from now, and the
\* middle of the window
ModeCOffsets ==
    {0, 1, ModeCOnMs - 1, ModeCOnMs, ModeCCycleMs \div 2,
     ModeCCycleMs - 1, ModeCCycleMs}

\* pump 0 after one iteration's pump calls at time t
AfterIteration(w, t, stepped) ==
    pumpIteration(w, emergency_stop, pump_config, FALSE, 0, 0, 0, t, stepped)

AfterContacts(n) ==
    processFeedMode(World, 0, pump_config[0], FALSE, 0, n, 0, now).pumps[0]

\* Mode D bookkeeping of one call with n contacts, the feed time after the
\* call being fed(credited): the contacts are added to contact_count; when
\* the count has reached contact_divider, exactly contact_divider is taken
\* off it, so that count before + n = count after + contact_divider * credit
\* (none lost, none counted twice); the feed time is started as a timed run
\* and zeroed when the pump is idle, and kept while it runs.
ModeDBookkeeping(n, fed(_)) ==
    LET p == pumps[0]
        q == AfterContacts(n)
        credited == p.contact_count + n >= pump_config[0].contact_divider
        feed_time == fed(credited)
    IN  /\ q.contact_count + (IF credited THEN pump_config[0].contact_divider ELSE 0)
             = p.contact_count + n
        /\ IF feed_time > 0 /\ ~p.running
           THEN /\ q.running /\ q.time_limited
                /\ q.start_time = now
                /\ q.target_time_ms = feed_time
                /\ q.accumulated_feed_time = 0
           ELSE /\ q.accumulated_feed_time = feed_time
                /\ q.running = p.running
                /\ q.start_time = p.start_time
                /\ q.target_time_ms = p.target_time_ms

ModeDActive ==
    /\ pump_config[0].feed_mode = FEED_MODE_D_WATER_CONTACT
    /\ pumps[0].enabled /\ pumps[0].hoa_mode = HOA_AUTO

\* C22 as stated: each credit adds exactly one time_per_contact to the
\* accumulated feed time.
C22_Original ==
    ModeDActive =>
        \A n \in WaterContacts :
            LET fed(credited) ==
                    pumps[0].accumulated_feed_time
                      + (IF credited THEN pump_config[0].time_per_contact_ms ELSE 0)
            IN  ModeDBookkeeping(n, fed)

\* C22: each credit adds one time_per_contact to the accumulated feed time,
\* which is held at time_limit_seconds when a limit is configured; the
\* contacts are conserved and the feed time is run and zeroed as soon as
\* the pump is idle.
C22_WaterContact ==
    ModeDActive =>
        \A n \in WaterContacts :
            LET limit_ms == pump_config[0].time_limit_seconds * 1000
                fed(credited) ==
                    LET sum == pumps[0].accumulated_feed_time
                                 + pump_config[0].time_per_contact_ms
                    IN  IF ~credited THEN pumps[0].accumulated_feed_time
                        ELSE IF pump_config[0].time_limit_seconds > 0 /\ sum > limit_ms
                             THEN limit_ms ELSE sum
            IN  ModeDBookkeeping(n, fed)

\* C22 witness: credits received while the pump runs have filled the
\* accumulated feed time up to the configured limit, with contacts left over
C22_Witness ==
    /\ ModeDActive
    /\ pump_config[0].time_limit_seconds > 0
    /\ pump_config[0].contact_divider > 1
    /\ pumps[0].running
    /\ pumps[0].contact_count > 0
    /\ pumps[0].accumulated_feed_time = pump_config[0].time_limit_seconds * 1000


\* the mode-specific accumulators of a pump
Accumulators(p) ==
    <<p.contact_count, p.accumulated_volume, p.accumulated_feed_time,
      p.mode_b_accumulated_blowdown, p.mode_c_cycle_start>>

\* C23: no step that enters Hand, is taken in Hand or leaves Hand changes a
\* mode-specific accumulator of the pump (contact_count, accumulated_volume,
\* accumulated_feed_time, the latched blowdown time of Mode B, the cycle
\* start of Mode C), whatever the iteration's feed inputs and however many
\* iterations run in Hand; so a round trip Auto, Hand, Auto returns them as
\* they were.
C23_HandKeepsAccumulators ==
    [][(pumps[0].hoa_mode = HOA_HAND \/ pumps'[0].hoa_mode = HOA_HAND)
          => Accumulators(pumps'[0]) = Accumulators(pumps[0])]_vars

\* C23 witness: the pump runs in Hand on the hand timer while contacts, feed
\* time, a latched blowdown time or a Mode C window are pending
C23_Witness ==
    /\ pumps[0].hoa_mode = HOA_HAND
    /\ pumps[0].running
    /\ pumps[0].target_time_ms = HOA_HAND_TIMEOUT_SEC * 1000
    /\ pumps[0].start_time > 0
    /\ \/ pumps[0].contact_count > 0 /\ pumps[0].accumulated_feed_time > 0
       \/ pumps[0].accumulated_volume > 0
       \/ pumps[0].mode_b_accumulated_blowdown > 0
       \/ pumps[0].mode_c_cycle_start > 0


-----------------------------------------------------------------------------
(* Properties of the water meter, the control task and the outputs *)

\* pulses the handler has counted on both meters
PulsesCounted ==
    meter.wm.meter_pulse_counts[0] + meter.wm.meter_pulse_counts[1]

\* C25 accounting: the contacts reported so far are exactly the pulses that
\* have been queried, which are among those copied, which are among those
\* counted: no pulse is reported twice, and every pulse not yet reported is
\* still pending in a counter.
MeterAccounting ==
    /\ meter.reported = meter.wm.meters[0].last_query_pulse_count
                          + meter.wm.meters[1].last_query_pulse_count
    /\ \A i \in MeterIds :
           /\ meter.wm.meters[i].last_query_pulse_count
                <= meter.wm.meters[i].pulse_count
           /\ meter.wm.meters[i].pulse_count <= meter.wm.meter_pulse_counts[i]

\* C25: under every interleaving of the interrupt handler, the steps of
\* WaterMeter::update() and the control task's getContactsSinceLast(), the
\* accounting holds, and with both tasks scheduled every counted pulse is
\* reported: once the pulses have stopped, the sum of the deltas returned
\* equals the pulses counted, and stays so.
C25_ReadAndResetDelta ==
    /\ []MeterAccounting
    /\ <>[](meter.reported = PulsesCounted)

\* C25 witness: pulses were counted while a copy was in flight, some of
\* them reported and one still to be copied
C25_Witness ==
    /\ meter.reported >= 2
    /\ meter.pc = 1
    /\ meter.wm.meters[0].pulse_count > meter.wm.meters[0].last_query_pulse_count
    /\ meter.current_pulses < meter.wm.meter_pulse_counts[0]


\* C26: whenever a pump's running flag is true its driver is enabled, so
\* that no other pump's start or stop has taken the enable away from it.
C26_EnableOwnership ==
    \A i \in PumpIds : pumps[i].running => enable_pin


\* conductivities at which continuous control opens a closed valve
OpeningConductivities ==
    {v \in Conductivities :
        IF config.control_direction = 0 THEN v > config.setpoint
                                        ELSE v < config.setpoint}

\* C27: an update() without flow leaves timeout_flag and waiting_for_reset
\* as they were, in every operator mode; and in Auto with no timeout
\* latched, the updates that follow it with flow and a conductivity beyond
\* the setpoint command the valve open again (relay energized, no reset
\* awaited), once a motorized valve has had its travel time.
C27_NoFlowDoesNotLatch ==
    config.present =>
        \A v \in Conductivities :
            LET s0 == update(bd, config, cond_config, v, FALSE, now)
            IN  /\ s0.timeout_flag = bd.timeout_flag
                /\ s0.waiting_for_reset = bd.waiting_for_reset
                /\ s0.hoa_mode = bd.hoa_mode
                /\ (bd.hoa_mode = HOA_AUTO /\ ~bd.waiting_for_reset) =>
                       \A w \in OpeningConductivities :
                           LET t == now + BallValveDelayMs
                               s1 == update(s0, config, cond_config, w, TRUE, t)
                               s2 == update(s1, config, cond_config, w, TRUE, t)
                           IN  /\ s2.relay_energized
                               /\ ~s2.waiting_for_reset
                               /\ ~s2.timeout_flag

-----------------------------------------------------------------------------
(* Properties of the fuzzy controller *)

\* C28: in a configured controller, for every manual input without a valid
\* value, evaluate() gives every rule whose antecedent names Medium for that
\* input the degree 1.0, and every rule whose antecedent names another term
\* the degree 0.
C28_InvalidInputIsNormal ==
    fuzzy.config.present =>
        \A inputs \in FuzzyInputs, i \in ManualInputIds :
            ~fuzzy.manual_valid[i] =>
                \A r \in 1 .. Len(fuzzy.rules) :
                    LET rule == fuzzy.rules[r]
                        seen == antecedentDegree(fuzzy,
                                                 inputMembership(fuzzy, inputs),
                                                 rule, i)
                    IN  rule.antecedent[i + 1] # DONT_CARE =>
                            seen = (IF rule.antecedent[i + 1] = MD THEN ONE ELSE 0)

\* every manual input holds a valid value equal to its setpoint
AtSetpoints ==
    /\ fuzzy.config.present
    /\ \A i \in ManualInputIds :
        /\ fuzzy.manual_valid[i]
        /\ fuzzy.manual_values[i] = Setpoint(fuzzy.config, i)

\* a rate, in hundredths of a percent, inside the support of the lowest
\* set of output o
NearZero(o, rate) == rate < fuzzy.outputs[o].sets[1].params[3] * 100

\* C29: with the four manual inputs valid and at their setpoints, 25 C and
\* a steady conductivity, evaluate() returns blowdown, caustic and sulfite
\* rates inside the support of the lowest output set.
C29_SetpointsGiveNoAction ==
    AtSetpoints =>
        LET result == evaluate(fuzzy, [temperature |-> 2500, cond_trend |-> 0])
        IN  /\ NearZero(FUZZY_OUT_BLOWDOWN, result.blowdown_rate)
            /\ NearZero(FUZZY_OUT_CAUSTIC, result.caustic_rate)
            /\ NearZero(FUZZY_OUT_SULFITE, result.sulfite_rate)

-----------------------------------------------------------------------------
(* Properties of the controllers without configuration *)

\* what a pump keeps between feed decisions
PumpUntouched(w, i) ==
    /\ w.pumps[i] = pumps[i]
    /\ w.pin = enable_pin

\* C30: without a blowdown configuration, update() in Auto with flow leaves
\* the relay, valve_open and the state as they are; without a pump
\* configuration, processFeedMode() leaves the pump, its accumulators and
\* the driver enable as they are; without a fuzzy configuration, evaluate()
\* returns the all-zero result, whatever manual values have been entered.
C30_MissingConfigNoOp ==
    /\ (~config.present /\ bd.hoa_mode = HOA_AUTO) =>
           \A v \in Conductivities :
               LET s == update(bd, config, cond_config, v, TRUE, now)
               IN  /\ s.relay_energized = bd.relay_energized
                   /\ s.valve_open = bd.valve_open
                   /\ s.state = bd.state
    /\ \A i \in PumpIds :
           ~pump_config[i].present =>
               \A b \in BOOLEAN, a \in BlowdownTimes,
                  n \in WaterContacts, vol \in WaterVolumes :
                   PumpUntouched(processFeedMode(World, i, pump_config[i],
                                                 b, a, n, vol, now), i)
    /\ ~fuzzy.config.present =>
           \A inputs \in FuzzyInputs :
               /\ evaluate(fuzzy, inputs) = ZeroResult
               /\ \A i \in ManualInputIds :
                      \A v \in ManualValues(i) :
                          evaluate(setManualInput(fuzzy, i, v, TRUE), inputs)
                              = ZeroResult

\* C30 witness: no configuration anywhere; an update() with flow has just
\* run in Auto on an open valve, and pump 0 is in Auto
C30_Witness ==
    /\ ~config.present /\ ~pump_config[0].present /\ ~fuzzy.config.present
    /\ AfterUpdate /\ bdOp.flow_ok
    /\ bd.hoa_mode = HOA_AUTO /\ bd.valve_open /\ bd.relay_energized
    /\ pumps[0].hoa_mode = HOA_AUTO
    /\ now > 0

-----------------------------------------------------------------------------
(* Properties of the control task *)

\* the calls an iteration has made are a prefix of the source's order
InOrder(calls) ==
    /\ Len(calls) <= Len(IterationCalls)
    /\ \A k \in 1 .. Len(calls) : calls[k] = IterationCalls[k]

\* C24: in every iteration of the control task the calls are made in the
\* order update(), meter queries, evaluate(), processFeedModes(),
\* PumpManager::update(), and the active flag and accumulated time handed
\* to processFeedModes() are those update() left in the same iteration.
C24_ControlTickOrder ==
    /\ InOrder(task.calls)
    /\ task.pc = "meters" => task.calls = <<"update">>
    /\ task.pc = "feed" => task.calls[Len(task.calls)] = "evaluate"
    /\ task.pc = "pumps" =>
        /\ task.calls[Len(task.calls)] = "processFeedModes"
        /\ task.fed = task.update_out
        /\ task.fed = [active |-> isActive(bd),
                       accumulated_time |-> bd.accumulated_blowdown_time]

\* C24 witness: processFeedModes() has just been handed a discharge in
\* progress and the time an earlier discharge accumulated, and pump 0 has
\* started on it
C24_Witness ==
    /\ task.pc = "pumps"
    /\ task.fed.active
    /\ task.fed.accumulated_time > 0
    /\ pumps[0].running

-----------------------------------------------------------------------------
(* Properties of the timeout, the valve and the blowdown accounting *)

\* An update() latches a timeout only on a discharge that was open before the
\* call and has itself lasted time_limit_seconds.
C31_TimeoutForCurrentDischarge ==
    config.present =>
        \A v \in Conductivities :
            LET s == update(bd, config, cond_config, v, TRUE, now)
            IN  (s.timeout_flag /\ ~bd.timeout_flag) =>
                    /\ bd.state = BD_STATE_BLOWING_DOWN
                    /\ now - bd.blowdown_start_time >= BlowdownLimitMs

\* C31: a blowdown timeout is raised only when the current discharge has
\* itself lasted time_limit_seconds; in particular the update() that follows
\* resetTimeout() on a latched timeout does not latch the timeout again.
C31_ResetAllowsFullDischarge ==
    /\ C31_TimeoutForCurrentDischarge
    /\ (config.present /\ bd.timeout_flag /\ bd.state = BD_STATE_TIMEOUT) =>
            \A v \in Conductivities :
                LET r == resetTimeout(bd, config)
                    s == update(r, config, cond_config, v, TRUE, now)
                IN  ~s.timeout_flag

\* C32: whenever the blowdown state is Idle, Waiting, Holding or Timeout the
\* relay is de-energized, after any sequence of update(), setHOA(),
\* resetTimeout(), openValve() and closeValve() calls.
C32_RelayOffOutsideBlowdown ==
    bd.state \in {BD_STATE_IDLE, BD_STATE_WAITING, BD_STATE_HOLDING, BD_STATE_TIMEOUT} =>
        ~bd.relay_energized

-----------------------------------------------------------------------------
(* Properties of the feed modes over several feeds *)

\* C33: each period of blowdown contributes to at most one Mode B feed.
\* Without a feed cap, when the control loop starts a feed after an earlier
\* one whose time was over when the latest discharge opened, the two feeds
\* together are at most the configured share of all the blowdown time accumulated so far.
C33_BlowdownFedOnce ==
    LET c == pump_config[0]
    IN  (c.feed_mode = FEED_MODE_B_PERCENT_BLOWDOWN /\ c.max_time_seconds = 0) =>
            \A v \in Conductivities, f \in BOOLEAN :
                LET s == update(bd, config, cond_config, v, f, now)
                    w == PumpManager_processFeedModes(
                             World, emergency_stop, pump_config, isActive(s),
                             s.accumulated_blowdown_time, 0, 0, now)
                IN  (/\ ~pumps[0].running /\ w.pumps[0].running
                     /\ pumps[0].target_time_ms > 0
                     /\ bd.blowdown_start_time
                            >= pumps[0].start_time + pumps[0].target_time_ms) =>
                        pumps[0].target_time_ms + w.pumps[0].target_time_ms
                            <= ModeBFeedTime(c, s.accumulated_blowdown_time)

-----------------------------------------------------------------------------
(* Properties of the rule base *)

\* the place, among the five sets VeryLow, Low, Normal, High, VeryHigh of an
\* input, of the set a rule's comment names with the term
NamedSet(term) ==
    CASE term = VL -> 0
      [] term = LO -> 1
      [] term = MD -> 2
      [] term = HI -> 3
      [] term = VH -> 4

\* the conductivity rules, Rule 1 to Rule 5
ConductivityRules == 1 .. 5

\* C34: each default rule fires according to the set named in its
\* definition.  A conductivity rule has nonzero firing strength only if every
\* input it names (conductivity, trend) has nonzero membership in the named
\* set.
C34_RulesFireOnNamedSets ==
    fuzzy.config.present =>
        \A in \in FuzzyInputs :
            LET membership == Table([i \in InputIds |->
                                       Table(inputMembership(fuzzy, in)[i])])
            IN  \A r \in ConductivityRules :
                    firingStrength(fuzzy, membership, fuzzy.rules[r]) > 0 =>
                        \A i \in {FUZZY_IN_TDS, FUZZY_IN_TREND} :
                            LET term == fuzzy.rules[r].antecedent[i + 1]
                            IN  term # DONT_CARE =>
                                    membership[i][NamedSet(term)] > 0

\* the minimum, over the antecedents of rule that are not DONT_CARE, of the
\* input's degree in the term the antecedent names
RECURSIVE namedMinFrom(_, _, _)
namedMinFrom(membership, rule, i) ==
    IF i >= FUZZY_MAX_INPUTS THEN ONE
    ELSE LET term == rule.antecedent[i + 1]
             rest == namedMinFrom(membership, rule, i + 1)
         IN  IF term = DONT_CARE THEN rest
             ELSE tNormMin(membership[i][term], rest)

\* the rules of f with their weak ones (strength below 0.001) disabled
withoutWeakRules(f, fs) ==
    [f EXCEPT !.rules = [r \in 1 .. Len(f.rules) |->
                            [f.rules[r] EXCEPT !.enabled = @ /\ fs[r] >= 1]]]

\* C35: for each enabled rule the firing strength is the minimum over its
\* non-don't-care antecedents of the input's membership in the named term,
\* multiplied by the rule weight; rules below 0.001 contribute nothing to any
\* output and are not counted; active_rules is the number of remaining rules,
\* max_firing_strength the largest strength among them and dominant_rule the
\* index of a rule that attains it.
C35_RuleEvaluation ==
    fuzzy.config.present =>
        \A in \in FuzzyInputs :
            LET membership == Table([i \in InputIds |->
                                       Table(inputMembership(fuzzy, in)[i])])
                strength == Table([r \in 1 .. Len(fuzzy.rules) |->
                               IF ~fuzzy.rules[r].enabled THEN 0
                               ELSE (namedMinFrom(membership, fuzzy.rules[r], 0)
                                        * fuzzy.rules[r].weight) \div 10])
                active == {r \in 1 .. Len(fuzzy.rules) : strength[r] >= 1}
                result == evaluate(fuzzy, in)
                pruned == evaluate(withoutWeakRules(fuzzy, strength), in)
            IN  /\ \A r \in 1 .. Len(fuzzy.rules) :
                       firingStrength(fuzzy, membership, fuzzy.rules[r]) = strength[r]
                /\ result.active_rules = Cardinality(active)
                /\ \A r \in active : strength[r] <= result.max_firing_strength
                /\ active # {} =>
                       /\ result.dominant_rule + 1 \in active
                       /\ strength[result.dominant_rule + 1] = result.max_firing_strength
                /\ \A o \in {"blowdown_rate", "caustic_rate", "sulfite_rate", "acid_rate"} :
                       pruned[o] = result[o]

\* C36: in WaterContact and Paddlewheel modes with time_limit_seconds > 0,
\* accumulated_feed_time is at most time_limit_seconds * 1000 ms after every
\* processFeedMode() call, whatever the contact and volume deltas and
\* whether or not the pump is running.
C36_FeedTimeCapped ==
    LET c == pump_config[0]
    IN  (/\ c.feed_mode \in {FEED_MODE_D_WATER_CONTACT, FEED_MODE_E_PADDLEWHEEL}
         /\ c.time_limit_seconds > 0) =>
            /\ pumps[0].accumulated_feed_time <= c.time_limit_seconds * 1000
            /\ \A b \in BOOLEAN, n \in WaterContacts, vol \in WaterVolumes :
                   processFeedMode(World, 0, c, b, TICK_MS, n, vol, now)
                       .pumps[0].accumulated_feed_time
                     <= c.time_limit_seconds * 1000

\* C36 witness: in Paddlewheel mode the credits received while the pump runs
\* have filled the accumulated feed time up to the limit
C36_Witness ==
    /\ pump_config[0].feed_mode = FEED_MODE_E_PADDLEWHEEL
    /\ pump_config[0].time_limit_seconds > 0
    /\ pumps[0].running
    /\ pumps[0].accumulated_feed_time = pump_config[0].time_limit_seconds * 1000

\* C37: in WaterContact mode feed is credited only in response to meter
\* contacts.  With no contact pending, no feed time accumulated and the pump
\* stopped (as when the control task starts), a processFeedMode() call that
\* reports no contact leaves accumulated_feed_time at 0 and does not start
\* the pump, for every contact_divider (0 included).
C37_NoContactsNoFeed ==
    (/\ ModeDActive
     /\ now > 0
     /\ pumps[0].contact_count = 0
     /\ pumps[0].accumulated_feed_time = 0
     /\ ~pumps[0].running) =>
        \A b \in BOOLEAN, vol \in WaterVolumes :
            LET q == processFeedMode(World, 0, pump_config[0], b, TICK_MS,
                                     0, vol, now).pumps[0]
            IN  /\ q.accumulated_feed_time = 0
                /\ q.contact_count = 0
                /\ ~q.running

-----------------------------------------------------------------------------
(* Properties of the pump manager and of the pumps' operator modes *)

\* C38: emergency stop is absorbing.  Once PumpManager::emergencyStop() has
\* been called no pump is running, and neither PumpManager::update() nor
\* PumpManager::processFeedModes() starts one, whatever the feed mode, the
\* blowdown state, the water-meter inputs and the Hand settings.
C38_EmergencyStopAbsorbing ==
    emergency_stop =>
        /\ \A i \in PumpIds : ~pumps[i].running
        /\ \A stepped \in BOOLEAN, i \in PumpIds :
               ~PumpManager_update(World, emergency_stop, pump_config, now,
                                   [j \in PumpIds |-> stepped]).pumps[i].running
        /\ \A b \in BOOLEAN, n \in WaterContacts, vol \in WaterVolumes, i \in PumpIds :
               ~PumpManager_processFeedModes(World, emergency_stop, pump_config,
                                             b, TICK_MS, n, vol, now).pumps[i].running

\* C38 witness: the emergency stop is engaged, pump 0 has run before and is
\* selected to Hand, and the clock has advanced past its last start
C38_Witness ==
    /\ emergency_stop
    /\ pumps[0].hoa_mode = HOA_HAND
    /\ pumps[0].start_time > 0
    /\ now > pumps[0].start_time

\* pump 0 is on a run that processHOA() started in Hand
HandForcedRun ==
    /\ pumps[0].hoa_mode = HOA_HAND
    /\ pumps[0].running
    /\ pumps[0].start_time = pump_hand_start_time

\* C39: switching a pump from Hand back to Auto ends the hand-forced run.
\* After setHOA(Auto) and the next control tick (processFeedModes(), then
\* update()) the pump is running only if its feed mode commands it to run on
\* that tick, that is, only if the same tick leaves a pump running that was
\* stopped when the selector was turned.
C39_AutoEndsHandRun ==
    HandForcedRun =>
        \A b \in BOOLEAN, n \in WaterContacts, vol \in WaterVolumes, stepped \in BOOLEAN :
            LET auto == ChemicalPump_setHOA(World, 0, pump_config[0], HOA_AUTO)
                tick(w) == pumpIteration(w, emergency_stop, pump_config, b,
                                         TICK_MS, n, vol, now, stepped)
            IN  tick(auto).pumps[0].running =>
                    tick(ChemicalPump_stop(auto, 0)).pumps[0].running

\* C40: total_runtime_ms is the sum of the durations of the runs, each
\* elapsed millisecond of running added exactly once, and runtime_ms is the
\* elapsed time of the current run.  For a run begun by start(), of which
\* runtime_ms has been accounted so far: an update() adds to
\* total_runtime_ms the time run since that account, and leaves in
\* runtime_ms the time since the start of the run.
C40_RuntimeAccounting ==
    (pumps[0].running /\ pumps[0].state = PUMP_STATE_RUNNING) =>
        \A stepped \in BOOLEAN :
            LET p == pumps[0]
                q == ChemicalPump_update(World, 0, pump_config[0], now,
                                         stepped).pumps[0]
                added == totalRuntimeAdded(World, 0, pump_config[0], now, stepped)
            IN  /\ added = (now - p.start_time) - p.runtime_ms
                /\ q.start_time = p.start_time =>
                       q.runtime_ms = now - p.start_time

====
